---- MODULE Spec2Model ----
(***************************************************************************)
(* Model of the company-name matching code of FL_business_list.            *)
(*                                                                         *)
(* Part 1: FastDocumentMatcher (document_number_matcher.py): the three     *)
(* indexes, build_indexes, find_candidates and fast_match_single.          *)
(* Part 2: the four clean_company_name normalizers.                        *)
(* Part 3: match_batch and match_companies_parallel on the reference       *)
(* table of the tests.                                                     *)
(* Part 4: the two get_match_quality.                                      *)
(* Part 5: load_data_efficiently and the columns of the officers CSV.      *)
(* Part 6: extract_officer_from_line (extract_officers_full.py).           *)
(* Part 7: a second build_indexes call on one matcher.                     *)
(* Part 8: find_candidates on names long enough to meet the cap of the     *)
(* prefix fallback.                                                        *)
(* Part 9: fast_similarity (company_officer_matcher.py).                   *)
(* Part 10: process_file_in_chunks (extract_officers_full.py).             *)
(*                                                                         *)
(* A Python str is a sequence of one-character strings.  A similarity      *)
(* score is an exact fraction [n, d] in lowest terms (100 is [100, 1]).    *)
(***************************************************************************)
EXTENDS Integers, Sequences, FiniteSets, TLC

VARIABLES
    match_threshold,    \* FastDocumentMatcher.match_threshold
    exact_match_index,  \* dict clean_name -> doc_number
    prefix_index,       \* defaultdict(list): prefix -> list of (name, doc)
    token_index,        \* defaultdict(list): token  -> list of (name, doc)
    refs,               \* the officers_df rows given to build_indexes
    op,                 \* the last operation called
    query,              \* the company_data / company_name of the last call
    candidates,         \* the list last returned by find_candidates
    results,            \* the records returned by the last (at most two)
                        \* consecutive fast_match_single calls on one query
    path,               \* the steps the last fast_match_single call took
    name,               \* normalizers: the raw input name
    impl,               \* normalizers: which clean_company_name is applied
    cleaned,            \* normalizers: the successive return values of
                        \* clean_company_name, applied to name and then
                        \* to its own result
    batch,              \* batch matching: the batch_data / company rows of
                        \* the last call
    outcome,            \* batch matching: what the last call gave its
                        \* caller, an exception or the list of results
    given_score,        \* quality tiers: the similarity score classified
    quality,            \* quality tiers: what get_match_quality returned
    columns,            \* loading: the header of the officers CSV file
    loaded,             \* loading: what load_data_efficiently made of it
    raw_line,           \* extraction: the line given to
                        \* extract_officer_from_line
    officer,            \* extraction: what extract_officer_from_line
                        \* returned
    last_built,         \* rebuilding: the officers_df rows of the latest
                        \* build_indexes call on a matcher built before
    sim_args,           \* similarity: str1 and str2 given to fast_similarity
    sim_score,          \* similarity: what fast_similarity returned
    file_lines,         \* chunks: the lines of the file, as iterating the
                        \* file gives them, each with its line end
    chunk_size,         \* chunks: the chunk_size of the call
    chunk_out           \* chunks: what process_file_in_chunks gave its
                        \* caller, an exception or all_officers

matcherVars == <<match_threshold, exact_match_index, prefix_index,
                 token_index, refs, op, query, candidates, results, path>>
cleanVars == <<name, impl, cleaned>>
batchVars == <<batch, outcome>>
qualityVars == <<given_score, quality>>
loadVars == <<columns, loaded>>
extractVars == <<raw_line, officer>>
rebuildVars == <<last_built>>
similarityVars == <<sim_args, sim_score>>
\* the variables of the parts that come after extraction
chunkVars == <<file_lines, chunk_size, chunk_out>>
tailVars == <<rebuildVars, similarityVars, chunkVars>>
vars == <<match_threshold, exact_match_index, prefix_index, token_index,
          refs, op, query, candidates, results, path, name, impl, cleaned,
          batch, outcome, given_score, quality, columns, loaded, raw_line,
          officer, last_built, sim_args, sim_score, file_lines, chunk_size,
          chunk_out>>

\* the parts of the program that a specification does not exercise
IdleBatch ==
    /\ batch = <<>>
    /\ outcome = [raised |-> FALSE, results |-> <<>>]

IdleQuality ==
    /\ given_score = [n |-> 0, d |-> 1]
    /\ quality = [of |-> "none", tier |-> ""]

IdleLoad ==
    /\ columns = <<>>
    /\ loaded = [state |-> "none"]

IdleExtract ==
    /\ raw_line = <<>>
    /\ officer = [kind |-> "none"]

IdleRebuild == last_built = <<>>

IdleSimilarity ==
    /\ sim_args = [str1 |-> <<>>, str2 |-> <<>>]
    /\ sim_score = <<>>

IdleChunks ==
    /\ file_lines = <<>>
    /\ chunk_size = 1
    /\ chunk_out = [state |-> "none"]

IdleTail == IdleRebuild /\ IdleSimilarity /\ IdleChunks

----------------------------------------------------------------------------
(* Bounds *)

\* rows of one reference table
MaxRefs == 2
\* pieces concatenated into one raw name given to a normalizer
MaxPieces == 3

----------------------------------------------------------------------------
(* Python str helpers *)

Min(a, b) == IF a <= b THEN a ELSE b

Max(a, b) == IF a >= b THEN a ELSE b

\* s[:n]
Take(s, n) == SubSeq(s, 1, Min(n, Len(s)))

\* s[n:]
Drop(s, n) == SubSeq(s, Min(n, Len(s)) + 1, Len(s))

\* characters str.split(), str.strip() and the regex class \s treat as space
IsSpace(c) == c \in {" ", "\t", "\n"}

\* str.lstrip(), str.rstrip(): without the leading, the trailing run of spaces
LStrip(s) ==
    LET starts == { k \in 1..(Len(s) + 1) : k > Len(s) \/ ~IsSpace(s[k]) }
    IN  SubSeq(s, CHOOSE k \in starts : \A m \in starts : k <= m, Len(s))

RStrip(s) ==
    LET ends == { k \in 0..Len(s) : k = 0 \/ ~IsSpace(s[k]) }
    IN  SubSeq(s, 1, CHOOSE k \in ends : \A m \in ends : m <= k)

\* str.strip()
Strip(s) == LStrip(RStrip(s))

\* length of the leading run of non-space characters
WordLen(s) ==
    LET ends == { k \in 0..Len(s) : k = Len(s) \/ IsSpace(s[k + 1]) }
    IN  CHOOSE k \in ends : \A m \in ends : k <= m

\* str.split(): the list of whitespace-delimited tokens
RECURSIVE Split(_)
Split(s) ==
    LET t == LStrip(s) IN
    IF t = <<>> THEN <<>>
    ELSE <<Take(t, WordLen(t))>> \o Split(Drop(t, WordLen(t)))

\* ' '.join(tokens)
RECURSIVE Join(_)
Join(tokens) ==
    IF tokens = <<>> THEN <<>>
    ELSE IF Len(tokens) = 1 THEN tokens[1]
    ELSE tokens[1] \o <<" ">> \o Join(Tail(tokens))

----------------------------------------------------------------------------
(* Inputs of the matcher *)

DocNumbers == {"L24000326550", "L24000326551"}

\* clean names of reference rows: shorter than 3 characters, a first token
\* shorter than 3, shared 3- and 5-character prefixes, another first letter;
\* a row's clean_name may be empty (clean_company_name of a missing name)
RowNames ==
    { <<>>,
      <<"A","B">>,
      <<"A","B"," ","C">>,
      <<"A","B","C","D">>,
      <<"A","B","C","X">>,
      <<"A","B","C","D","X">>,
      <<"X","A","B">> }

\* clean names of queries: empty, equal to a reference name, sharing a
\* prefix or the first token with one, sharing two characters only
QueryNames ==
    { <<>>,
      <<"A","B">>,
      <<"A","B"," ","C">>,
      <<"A","B","C">>,
      <<"A","B","C","D">>,
      <<"A","B","C","D","X">>,
      <<"A","B","X">> }

Rows == [clean_name : RowNames, doc_number : DocNumbers]

RefSets == UNION {[1..n -> Rows] : n \in 0..MaxRefs}

OriginalNames == {"Company"}

CompanyData == [original_name : OriginalNames, clean_name : QueryNames]

Thresholds == {80, 90}

----------------------------------------------------------------------------
(* FastDocumentMatcher.build_indexes *)

\* d[k] = v on a dict
Put(d, k, v) == [x \in DOMAIN d \cup {k} |-> IF x = k THEN v ELSE d[x]]

\* d[k].append(e) on a defaultdict(list)
AppendAt(d, k, e) ==
    Put(d, k, Append(IF k \in DOMAIN d THEN d[k] ELSE <<>>, e))

EmptyDict == [x \in {} |-> <<>>]

\* IndexRow with an exact map that keeps the first doc number of a name
IndexRow_KeepFirst(idx, row) ==
    LET clean_name == row.clean_name
        doc_number == row.doc_number
        entry == <<clean_name, doc_number>>
        exact1 == IF clean_name \in DOMAIN idx.exact THEN idx.exact
                  ELSE Put(idx.exact, clean_name, doc_number)
        prefix1 ==
            IF Len(clean_name) >= 3
            THEN AppendAt(idx.prefix, Take(clean_name, 3), entry)
            ELSE idx.prefix
        prefix2 ==
            IF Len(clean_name) >= 5
            THEN AppendAt(prefix1, Take(clean_name, 5), entry)
            ELSE prefix1
        tokens == Split(clean_name)
        token1 ==
            IF tokens # <<>> /\ Len(tokens[1]) >= 3
            THEN AppendAt(idx.token, tokens[1], entry)
            ELSE idx.token
    IN  IF clean_name = <<>> THEN idx
        ELSE [exact |-> exact1, prefix |-> prefix2, token |-> token1]

\* IndexRow with the 3-character prefix kept only for names of 5 or more
IndexRow_Prefix5Only(idx, row) ==
    LET clean_name == row.clean_name
        doc_number == row.doc_number
        entry == <<clean_name, doc_number>>
        exact1 == Put(idx.exact, clean_name, doc_number)
        prefix2 ==
            IF Len(clean_name) >= 5
            THEN AppendAt(AppendAt(idx.prefix, Take(clean_name, 3), entry),
                          Take(clean_name, 5), entry)
            ELSE idx.prefix
        tokens == Split(clean_name)
        token1 ==
            IF tokens # <<>> /\ Len(tokens[1]) >= 3
            THEN AppendAt(idx.token, tokens[1], entry)
            ELSE idx.token
    IN  IF clean_name = <<>> THEN idx
        ELSE [exact |-> exact1, prefix |-> prefix2, token |-> token1]

\* IndexRow with first tokens of every length indexed
IndexRow_ShortTokens(idx, row) ==
    LET clean_name == row.clean_name
        doc_number == row.doc_number
        entry == <<clean_name, doc_number>>
        exact1 == Put(idx.exact, clean_name, doc_number)
        prefix1 ==
            IF Len(clean_name) >= 3
            THEN AppendAt(idx.prefix, Take(clean_name, 3), entry)
            ELSE idx.prefix
        prefix2 ==
            IF Len(clean_name) >= 5
            THEN AppendAt(prefix1, Take(clean_name, 5), entry)
            ELSE prefix1
        tokens == Split(clean_name)
        token1 ==
            IF tokens # <<>>
            THEN AppendAt(idx.token, tokens[1], entry)
            ELSE idx.token
    IN  IF clean_name = <<>> THEN idx
        ELSE [exact |-> exact1, prefix |-> prefix2, token |-> token1]

\* the body of the loop of build_indexes for one row
IndexRow(idx, row) ==
    LET clean_name == row.clean_name
        doc_number == row.doc_number
        entry == <<clean_name, doc_number>>
        exact1 == Put(idx.exact, clean_name, doc_number)
        prefix1 ==
            IF Len(clean_name) >= 3
            THEN AppendAt(idx.prefix, Take(clean_name, 3), entry)
            ELSE idx.prefix
        prefix2 ==
            IF Len(clean_name) >= 5
            THEN AppendAt(prefix1, Take(clean_name, 5), entry)
            ELSE prefix1
        tokens == Split(clean_name)
        token1 ==
            IF tokens # <<>> /\ Len(tokens[1]) >= 3
            THEN AppendAt(idx.token, tokens[1], entry)
            ELSE idx.token
    IN  IF clean_name = <<>> THEN idx
        ELSE [exact |-> exact1, prefix |-> prefix2, token |-> token1]

\* the loop of build_indexes over the rows, in input order (the test on
\* idx, never true of the three dictionaries, has each iteration computed
\* before the next one starts)
RECURSIVE IndexRows(_, _)
IndexRows(idx, rows) ==
    IF rows = <<>> \/ DOMAIN idx = {} THEN idx
    ELSE IndexRows(IndexRow(idx, Head(rows)), Tail(rows))

----------------------------------------------------------------------------
(* FastDocumentMatcher.find_candidates *)

\* the elements of a list
Elems(list) == {list[i] : i \in DOMAIN list}

\* candidate cap of the fallback scan
FallbackCap == 50

\* CandidateSet with a fallback that scans every prefix key
CandidateSet_ScanAll(pidx, tidx, company_name) ==
    LET p3 == IF Len(company_name) >= 3
                 /\ Take(company_name, 3) \in DOMAIN pidx
              THEN Elems(pidx[Take(company_name, 3)]) ELSE {}
        p5 == IF Len(company_name) >= 5
                 /\ Take(company_name, 5) \in DOMAIN pidx
              THEN Elems(pidx[Take(company_name, 5)]) ELSE {}
        tokens == Split(company_name)
        tk == IF tokens # <<>> /\ tokens[1] \in DOMAIN tidx
              THEN Elems(tidx[tokens[1]]) ELSE {}
        found == p3 \cup p5 \cup tk
        fallback ==
            UNION { Elems(Take(pidx[key], FallbackCap)) : key \in DOMAIN pidx }
    IN  IF found = {} /\ Len(company_name) >= 3 THEN fallback ELSE found

\* CandidateSet with a fallback that takes the whole list of a key
CandidateSet_NoCap(pidx, tidx, company_name) ==
    LET p3 == IF Len(company_name) >= 3
                 /\ Take(company_name, 3) \in DOMAIN pidx
              THEN Elems(pidx[Take(company_name, 3)]) ELSE {}
        p5 == IF Len(company_name) >= 5
                 /\ Take(company_name, 5) \in DOMAIN pidx
              THEN Elems(pidx[Take(company_name, 5)]) ELSE {}
        tokens == Split(company_name)
        tk == IF tokens # <<>> /\ tokens[1] \in DOMAIN tidx
              THEN Elems(tidx[tokens[1]]) ELSE {}
        found == p3 \cup p5 \cup tk
        fallback ==
            UNION { Elems(pidx[key]) :
                    key \in { k \in DOMAIN pidx :
                              Len(k) >= 3
                              /\ Take(k, 2) = Take(Take(company_name, 3), 2) } }
    IN  IF found = {} /\ Len(company_name) >= 3 THEN fallback ELSE found

\* the set `candidates` at the return statement
CandidateSet(pidx, tidx, company_name) ==
    LET p3 == IF Len(company_name) >= 3
                 /\ Take(company_name, 3) \in DOMAIN pidx
              THEN Elems(pidx[Take(company_name, 3)]) ELSE {}
        p5 == IF Len(company_name) >= 5
                 /\ Take(company_name, 5) \in DOMAIN pidx
              THEN Elems(pidx[Take(company_name, 5)]) ELSE {}
        tokens == Split(company_name)
        tk == IF tokens # <<>> /\ tokens[1] \in DOMAIN tidx
              THEN Elems(tidx[tokens[1]]) ELSE {}
        found == p3 \cup p5 \cup tk
        fallback ==
            UNION { Elems(Take(pidx[key], FallbackCap)) :
                    key \in { k \in DOMAIN pidx :
                              Len(k) >= 3
                              /\ Take(k, 2) = Take(Take(company_name, 3), 2) } }
    IN  IF found = {} /\ Len(company_name) >= 3 THEN fallback ELSE found

\* d[k] read on a defaultdict(list): a missing key is inserted with []
Touch(d, k) == IF k \in DOMAIN d THEN d ELSE Put(d, k, <<>>)

\* LookupEffect with the subscript reads not guarded by `in`
LookupEffect_Unguarded(pidx, tidx, company_name) ==
    LET tokens == Split(company_name)
        pidx1 == IF Len(company_name) >= 3
                 THEN Touch(pidx, Take(company_name, 3)) ELSE pidx
        pidx2 == IF Len(company_name) >= 5
                 THEN Touch(pidx1, Take(company_name, 5)) ELSE pidx1
        tidx1 == IF tokens # <<>> THEN Touch(tidx, tokens[1]) ELSE tidx
    IN  [prefix |-> pidx2, token |-> tidx1]

\* prefix_index and token_index when find_candidates returns: every
\* subscript read is guarded by `in`, the fallback reads existing keys only
LookupEffect(pidx, tidx, company_name) ==
    LET tokens == Split(company_name)
        pidx1 == IF Len(company_name) >= 3
                    /\ Take(company_name, 3) \in DOMAIN pidx
                 THEN Touch(pidx, Take(company_name, 3)) ELSE pidx
        pidx2 == IF Len(company_name) >= 5
                    /\ Take(company_name, 5) \in DOMAIN pidx1
                 THEN Touch(pidx1, Take(company_name, 5)) ELSE pidx1
        tidx1 == IF tokens # <<>> /\ tokens[1] \in DOMAIN tidx
                 THEN Touch(tidx, tokens[1]) ELSE tidx
    IN  [prefix |-> pidx2, token |-> tidx1]

\* list(candidates): a set has no specified iteration order
ListsOf(S) ==
    { f \in [1..Cardinality(S) -> S] :
        \A i, j \in 1..Cardinality(S) : i # j => f[i] # f[j] }

----------------------------------------------------------------------------
(* rapidfuzz: fuzz.ratio and process.extractOne *)

RECURSIVE GCD(_, _)
GCD(a, b) == IF b = 0 THEN a ELSE GCD(b, a % b)

\* the fraction n/d in lowest terms
Frac(n, d) == LET g == GCD(n, d) IN [n |-> n \div g, d |-> d \div g]

Score100 == Frac(100, 1)

Score0 == Frac(0, 1)

\* ScoreGE with the comparison turned round
ScoreGE_Reversed(s, t) == s.n <= t * s.d

\* score >= t, score > other, for fractions
ScoreGE(s, t) == s.n >= t * s.d

ScoreGT(s, r) == s.n * r.d > r.n * s.d

\* one row of the table of common-subsequence lengths: row[j + 1] is the
\* length for the characters read so far and the first j characters of b
RECURSIVE LCSRow(_, _, _, _)
LCSRow(prev, c, b, row) ==
    IF Len(row) > Len(b) THEN row
    ELSE LET j == Len(row)
         IN  LCSRow(prev, c, b,
                    Append(row, IF c = b[j] THEN prev[j] + 1
                                ELSE Max(prev[j + 1], row[j])))

\* the rows for the characters of a from position i on; the length cannot
\* grow once it is the length of b
RECURSIVE LCSRows(_, _, _, _)
LCSRows(a, b, i, prev) ==
    IF i > Len(a) \/ prev[Len(prev)] = Len(b) THEN prev[Len(prev)]
    ELSE LCSRows(a, b, i + 1, LCSRow(prev, a[i], b, <<0>>))

\* the length of the common prefix of a and b
CommonPrefix(a, b) ==
    LET same == { k \in 0..Min(Len(a), Len(b)) :
                    \A i \in 1..k : a[i] = b[i] }
    IN  CHOOSE k \in same : \A m \in same : m <= k

\* the length of the longest common subsequence: the common prefix, then
\* the table for what follows it, rows along the longer str
LCS(a, b) ==
    LET p == CommonPrefix(a, b)
        x == Drop(a, p)
        y == Drop(b, p)
    IN  p + (IF Len(x) >= Len(y)
             THEN LCSRows(x, y, 1, [j \in 1..(Len(y) + 1) |-> 0])
             ELSE LCSRows(y, x, 1, [j \in 1..(Len(x) + 1) |-> 0]))

\* fuzz.ratio: the normalized Indel similarity, 100 * 2*LCS / (len1 + len2)
Ratio(a, b) ==
    IF Len(a) + Len(b) = 0 THEN Score100
    ELSE Frac(200 * LCS(a, b), Len(a) + Len(b))

\* process.extractOne(query, choices, scorer=fuzz.ratio, score_cutoff):
\* the first choice, in list order, of the highest score >= score_cutoff;
\* <<>> stands for None
RECURSIVE ExtractOneFrom(_, _, _, _, _)
ExtractOneFrom(q, choices, score_cutoff, i, best) ==
    IF i > Len(choices) THEN best
    ELSE LET score == Ratio(q, choices[i])
             better == ScoreGE(score, score_cutoff)
                       /\ (best = <<>> \/ ScoreGT(score, best[1].score))
         IN  ExtractOneFrom(q, choices, score_cutoff, i + 1,
                 IF better THEN <<[choice |-> choices[i], score |-> score]>>
                 ELSE best)

ExtractOne(q, choices, score_cutoff) ==
    ExtractOneFrom(q, choices, score_cutoff, 1, <<>>)

----------------------------------------------------------------------------
(* FastDocumentMatcher.get_match_quality and fast_match_single *)

get_match_quality(score) ==
    IF score = Score100 THEN "Exact"
    ELSE IF ScoreGE(score, 95) THEN "Excellent"
    ELSE IF ScoreGE(score, 85) THEN "Very Good"
    ELSE IF ScoreGE(score, 75) THEN "Good"
    ELSE "Fair"

\* NoMatchRecord with the clean name of the query as matched_name
NoMatchRecord_KeepsName(company_data, method) ==
    [ original_company |-> company_data.original_name,
      clean_company    |-> company_data.clean_name,
      matched_name     |-> company_data.clean_name,
      document_number  |-> "",
      similarity_score |-> Score0,
      match_quality    |-> "No Match",
      match_method     |-> method ]

NoMatchRecord(company_data, method) ==
    [ original_company |-> company_data.original_name,
      clean_company    |-> company_data.clean_name,
      matched_name     |-> <<>>,
      document_number  |-> "",
      similarity_score |-> Score0,
      match_quality    |-> "No Match",
      match_method     |-> method ]

\* candidate_docs = {c[0]: c[1] for c in candidates}: the last one wins
RECURSIVE CandidateDocs(_)
CandidateDocs(cands) ==
    IF cands = <<>> THEN EmptyDict
    ELSE LET c == cands[Len(cands)]
             rest == CandidateDocs(SubSeq(cands, 1, Len(cands) - 1))
         IN  Put(rest, c[1], c[2])

\* steps 2 and 3 of fast_match_single, on the list find_candidates returned
FuzzyStep(company_data, cands, threshold) ==
    LET company_name == company_data.clean_name
        candidate_names == [i \in DOMAIN cands |-> cands[i][1]]
        candidate_docs == CandidateDocs(cands)
        result == ExtractOne(company_name, candidate_names, threshold)
    IN  IF cands = <<>> THEN NoMatchRecord(company_data, "No Candidates")
        ELSE IF result # <<>>
        THEN [ original_company |-> company_data.original_name,
               clean_company    |-> company_name,
               matched_name     |-> result[1].choice,
               document_number  |-> candidate_docs[result[1].choice],
               similarity_score |-> result[1].score,
               match_quality    |-> get_match_quality(result[1].score),
               match_method     |-> "Fuzzy" ]
        ELSE NoMatchRecord(company_data, "Below Threshold")

\* does fast_match_single return before find_candidates is called
ReturnsEarly(eidx, company_data) ==
    company_data.clean_name = <<>> \/ company_data.clean_name \in DOMAIN eidx

\* fast_match_single without the exact lookup of step 1
MatchSingle_NoExactStep(eidx, company_data, cands, threshold) ==
    IF company_data.clean_name = <<>>
    THEN NoMatchRecord(company_data, "None")
    ELSE FuzzyStep(company_data, cands, threshold)

\* fast_match_single; cands is the list find_candidates returns when called
MatchSingle(eidx, company_data, cands, threshold) ==
    LET company_name == company_data.clean_name IN
    IF company_name = <<>> THEN NoMatchRecord(company_data, "None")
    ELSE IF company_name \in DOMAIN eidx
    THEN [ original_company |-> company_data.original_name,
           clean_company    |-> company_name,
           matched_name     |-> company_name,
           document_number  |-> eidx[company_name],
           similarity_score |-> Score100,
           match_quality    |-> "Exact",
           match_method     |-> "Exact" ]
    ELSE FuzzyStep(company_data, cands, threshold)

\* MatchPath with find_candidates called before the exact lookup
MatchPath_CandidatesFirst(eidx, company_data, cands) ==
    LET company_name == company_data.clean_name IN
    IF company_name = <<>> THEN <<"Pending", "Classified">>
    ELSE IF company_name \in DOMAIN eidx
    THEN <<"Pending", "CandidatesFound", "ExactMatched">>
    ELSE IF cands = <<>> THEN <<"Pending", "NoCandidates", "Classified">>
    ELSE <<"Pending", "CandidatesFound", "Scored", "Classified">>

\* the steps of fast_match_single up to its return statement: the early
\* return on an empty name, the exact hit, the empty candidate list, or the
\* scoring of the candidates by extractOne
MatchPath(eidx, company_data, cands) ==
    LET company_name == company_data.clean_name IN
    IF company_name = <<>> THEN <<"Pending", "Classified">>
    ELSE IF company_name \in DOMAIN eidx THEN <<"Pending", "ExactMatched">>
    ELSE IF cands = <<>> THEN <<"Pending", "NoCandidates", "Classified">>
    ELSE <<"Pending", "CandidatesFound", "Scored", "Classified">>

----------------------------------------------------------------------------
(* The matcher as a state machine *)

InitMatcher ==
    /\ match_threshold \in Thresholds
    /\ exact_match_index = EmptyDict
    /\ prefix_index = EmptyDict
    /\ token_index = EmptyDict
    /\ refs = <<>>
    /\ op = "init"
    /\ query = <<>>
    /\ candidates = <<>>
    /\ results = <<>>
    /\ path = <<>>

IdleClean ==
    /\ name = [missing |-> FALSE, text |-> <<>>]
    /\ impl = "none"
    /\ cleaned = <<>>

Init ==
    InitMatcher /\ IdleClean /\ IdleBatch /\ IdleQuality /\ IdleLoad /\ IdleExtract
    /\ IdleTail

\* build_indexes(officers_df) on one of the given tables, called once on a
\* matcher as main() does
BuildIndexesOver(tables) ==
    /\ op = "init"
    /\ \E rows \in tables :
        LET idx == IndexRows([exact |-> exact_match_index,
                              prefix |-> prefix_index,
                              token |-> token_index], rows)
        IN  /\ refs' = refs \o rows
            /\ exact_match_index' = idx.exact
            /\ prefix_index' = idx.prefix
            /\ token_index' = idx.token
    /\ op' = "build_indexes"
    /\ query' = <<>>
    /\ candidates' = <<>>
    /\ results' = <<>>
    /\ path' = <<>>
    /\ UNCHANGED <<match_threshold, cleanVars, batchVars, qualityVars,
                 loadVars, extractVars, tailVars>>

BuildIndexes == BuildIndexesOver(RefSets)

\* find_candidates(company_name)
FindCandidates ==
    /\ op # "init"
    /\ \E company_name \in QueryNames :
        /\ query' = company_name
        /\ candidates' \in
               ListsOf(CandidateSet(prefix_index, token_index, company_name))
        /\ prefix_index' =
               LookupEffect(prefix_index, token_index, company_name).prefix
        /\ token_index' =
               LookupEffect(prefix_index, token_index, company_name).token
    /\ op' = "find_candidates"
    /\ results' = <<>>
    /\ path' = <<>>
    /\ UNCHANGED <<match_threshold, exact_match_index, refs, cleanVars, batchVars, qualityVars,
                 loadVars, extractVars, tailVars>>

\* fast_match_single(company_data) on one of the given queries
FastMatchSingleOn(queries) ==
    /\ op # "init"
    /\ \E company_data \in queries :
       \E cands \in ListsOf(CandidateSet(prefix_index, token_index,
                                          company_data.clean_name)) :
        LET record == MatchSingle(exact_match_index, company_data, cands,
                                  match_threshold)
            early == ReturnsEarly(exact_match_index, company_data)
            after == LookupEffect(prefix_index, token_index,
                                  company_data.clean_name)
        IN  /\ query' = company_data.clean_name
            /\ candidates' = IF early THEN <<>> ELSE cands
            /\ prefix_index' = IF early THEN prefix_index ELSE after.prefix
            /\ token_index' = IF early THEN token_index ELSE after.token
            /\ path' = MatchPath(exact_match_index, company_data, cands)
            /\ results' =
                   IF op = "fast_match_single" /\ query = company_data.clean_name
                   THEN <<results[Len(results)], record>>
                   ELSE <<record>>
    /\ op' = "fast_match_single"
    /\ UNCHANGED <<match_threshold, exact_match_index, refs, cleanVars, batchVars, qualityVars,
                 loadVars, extractVars, tailVars>>

FastMatchSingle == FastMatchSingleOn(CompanyData)

Next == BuildIndexes \/ FindCandidates \/ FastMatchSingle

Spec == Init /\ [][Next]_vars

----------------------------------------------------------------------------
(* Characters and regular expressions of the normalizers *)

LowerLetters ==
    <<"a","b","c","d","e","f","g","h","i","j","k","l","m",
      "n","o","p","q","r","s","t","u","v","w","x","y","z">>

UpperLetters ==
    <<"A","B","C","D","E","F","G","H","I","J","K","L","M",
      "N","O","P","Q","R","S","T","U","V","W","X","Y","Z">>

Digits == {"0","1","2","3","4","5","6","7","8","9"}

\* the regex class \w
IsWord(c) ==
    c \in Elems(LowerLetters) \cup Elems(UpperLetters) \cup Digits \cup {"_"}

\* str.upper()
UpperChar(c) ==
    IF c \in Elems(LowerLetters)
    THEN UpperLetters[CHOOSE i \in DOMAIN LowerLetters : LowerLetters[i] = c]
    ELSE c

Upper(s) == [i \in DOMAIN s |-> UpperChar(s[i])]

\* re.sub(r'[^\w\s\.&]', ' ', s)
KeepBusinessChars(s) ==
    [i \in DOMAIN s |->
        IF IsWord(s[i]) \/ IsSpace(s[i]) \/ s[i] \in {".", "&"}
        THEN s[i] ELSE " "]

\* re.sub(r'[^\w\s]', ' ', s)
RemovePunctuation(s) ==
    [i \in DOMAIN s |-> IF IsWord(s[i]) \/ IsSpace(s[i]) THEN s[i] ELSE " "]

\* re.sub(r'\s+', ' ', s)
RECURSIVE CollapseSpaces(_)
CollapseSpaces(s) ==
    IF s = <<>> THEN <<>>
    ELSE IF IsSpace(Head(s)) THEN <<" ">> \o CollapseSpaces(LStrip(s))
    ELSE <<Head(s)>> \o CollapseSpaces(Tail(s))

\* regex elements: a literal character, an optional character (c?), \s*, \s+
Lit(c) == <<"lit", c>>

Opt(c) == <<"opt", c>>

WsStar == <<"ws*", "">>

WsPlus == <<"ws+", "">>

\* a word as a sequence of literals
Lits(w) == [i \in DOMAIN w |-> Lit(w[i])]

\* a word with an optional '.' after each letter, e.g. L\.?L\.?C\.?
RECURSIVE Dotted(_)
Dotted(w) ==
    IF w = <<>> THEN <<>>
    ELSE <<Lit(Head(w)), Opt(".")>> \o Dotted(Tail(w))

\* does the whole of t match the pattern (the pattern ends with $)
RECURSIVE Matches(_, _)
Matches(t, pat) ==
    IF pat = <<>> THEN t = <<>>
    ELSE LET e == Head(pat)
             kind == e[1]
             rest == Tail(pat)
         IN  CASE kind = "lit" ->
                    t # <<>> /\ Head(t) = e[2] /\ Matches(Tail(t), rest)
               [] kind = "opt" ->
                    \/ (t # <<>> /\ Head(t) = e[2] /\ Matches(Tail(t), rest))
                    \/ Matches(t, rest)
               [] kind = "ws*" ->
                    \/ Matches(t, rest)
                    \/ (t # <<>> /\ IsSpace(Head(t)) /\ Matches(Tail(t), pat))
               [] kind = "ws+" ->
                    t # <<>> /\ IsSpace(Head(t))
                    /\ Matches(Tail(t), <<WsStar>> \o rest)

\* the start positions p at which s[p:] matches one of the patterns
MatchStarts(s, pats) ==
    { p \in 1..Len(s) :
        \E k \in DOMAIN pats : Matches(SubSeq(s, p, Len(s)), pats[k]) }

SetMin(S) == CHOOSE x \in S : \A y \in S : x <= y

\* re.sub(pattern, '', s) for a pattern that ends with $: the leftmost match
\* runs to the end of s and is removed
RemoveAtEnd(s, pats) ==
    IF MatchStarts(s, pats) = {} THEN s
    ELSE SubSeq(s, 1, SetMin(MatchStarts(s, pats)) - 1)

----------------------------------------------------------------------------
(* The four clean_company_name implementations *)

\* FastClean without the final ' '.join(name.split())
FastClean_NoCollapse(raw) ==
    IF raw.missing \/ raw.text = <<>> THEN <<>>
    ELSE KeepBusinessChars(Strip(Upper(raw.text)))

\* FastDocumentMatcher.clean_company_name
FastClean(raw) ==
    IF raw.missing \/ raw.text = <<>> THEN <<>>
    ELSE Join(Split(KeepBusinessChars(Strip(Upper(raw.text)))))

\* QuickDocumentMatcher.clean_company_name
QuickClean(raw) ==
    IF raw.missing THEN <<>>
    ELSE Join(Split(KeepBusinessChars(Strip(Upper(raw.text)))))

\* the list `suffixes` of matching.clean_company_name, in list order
MatchingSuffixes ==
    << <<WsPlus>> \o Lits(<<"L","L","C">>) \o <<Opt(".")>>,
       <<WsPlus>> \o Lits(<<"L",".","L",".","C">>) \o <<Opt(".")>>,
       <<WsPlus, Lit("L"), WsStar, Lit("L"), WsStar, Lit("C")>>,
       <<WsPlus>> \o Lits(<<"I","N","C">>) \o <<Opt(".")>>,
       <<WsPlus>> \o Lits(<<"I","N","C","O","R","P","O","R","A","T","E","D">>),
       <<WsPlus>> \o Lits(<<"C","O","R","P">>) \o <<Opt(".")>>,
       <<WsPlus>> \o Lits(<<"C","O","R","P","O","R","A","T","I","O","N">>),
       <<WsPlus>> \o Lits(<<"P","A">>),
       <<WsPlus>> \o Lits(<<"P",".","A">>) \o <<Opt(".")>>,
       <<WsPlus>> \o Lits(<<"L","T","D">>) \o <<Opt(".")>>,
       <<WsPlus>> \o Lits(<<"L","I","M","I","T","E","D">>),
       <<WsPlus>> \o Lits(<<"C","O">>) \o <<Opt(".")>>,
       <<WsPlus>> \o Lits(<<"C","O","M","P","A","N","Y">>),
       <<WsPlus>> \o Lits(<<"P","L","C">>),
       <<WsPlus>> \o Lits(<<"L","P">>),
       <<WsPlus>> \o Lits(<<"L",".","P">>) \o <<Opt(".")>> >>

\* for suffix in suffixes: name = re.sub(suffix, '', name)
RECURSIVE StripSuffixes(_, _)
StripSuffixes(s, i) ==
    IF i > Len(MatchingSuffixes) THEN s
    ELSE StripSuffixes(RemoveAtEnd(s, <<MatchingSuffixes[i]>>), i + 1)

\* matching.clean_company_name
MatchingClean(raw) ==
    IF raw.missing THEN <<>>
    ELSE Strip(CollapseSpaces(RemovePunctuation(
             StripSuffixes(Strip(Upper(raw.text)), 1))))

\* the alternatives of the suffix group of
\* EfficientCompanyMatcher.clean_company_name, each followed by \s*$
EfficientSuffixes ==
    << Lits(<<"L","L","C">>) \o <<WsStar>>,
       Dotted(<<"L","L","C">>) \o <<WsStar>>,
       Lits(<<"I","N","C">>) \o <<Opt("."), WsStar>>,
       Lits(<<"C","O","R","P">>) \o <<WsStar>>,
       Lits(<<"C","O","R","P","O","R","A","T","I","O","N">>) \o <<WsStar>>,
       Lits(<<"L","T","D">>) \o <<WsStar>>,
       Lits(<<"L","I","M","I","T","E","D">>) \o <<WsStar>>,
       Dotted(<<"L","P">>) \o <<WsStar>>,
       Lits(<<"P","L","L","C">>) \o <<WsStar>>,
       Dotted(<<"P","L","L","C">>) \o <<WsStar>>,
       Dotted(<<"P","A">>) \o <<WsStar>>,
       Dotted(<<"P","C">>) \o <<WsStar>>,
       Lits(<<"C","O">>) \o <<WsStar>>,
       Lits(<<"C","O","M","P","A","N","Y">>) \o <<WsStar>> >>

\* re.sub(r'\b(...)\s*$', '', s): the leftmost word boundary from which an
\* alternative reaches the end of s
RemoveSuffixWord(s) ==
    LET starts == { p \in MatchStarts(s, EfficientSuffixes) :
                      p = 1 \/ ~IsWord(s[p - 1]) }
    IN  IF starts = {} THEN s ELSE SubSeq(s, 1, SetMin(starts) - 1)

\* EfficientCompanyMatcher.clean_company_name
EfficientClean(raw) ==
    IF raw.missing \/ raw.text = <<>> THEN <<>>
    ELSE Join(Split(RemovePunctuation(RemoveSuffixWord(Strip(Upper(raw.text))))))

----------------------------------------------------------------------------
(* The normalizers as a state machine *)

\* pieces a raw company name is put together from
Pieces ==
    { <<"T","e","s","t">>,
      <<"A"," ","&"," ","B">>,
      <<",">>,
      <<".">>,
      <<"-">>,
      <<" ">>,
      <<"\t">>,
      <<" ","L","L","C">>,
      <<" ","I","n","c",".">>,
      <<" ","C","o","m","p","a","n","y">>,
      <<" ","C","o">>,
      <<"_","1">> }

RECURSIVE Concat(_)
Concat(ps) == IF ps = <<>> THEN <<>> ELSE Head(ps) \o Concat(Tail(ps))

RawTexts == { Concat(ps) : ps \in UNION {[1..n -> Pieces] : n \in 0..MaxPieces} }

\* a name is a str or missing (None / NaN)
RawNames ==
    { [missing |-> FALSE, text |-> t] : t \in RawTexts }
    \cup { [missing |-> TRUE, text |-> <<>>] }

\* the argument of the next call: the raw name, then the last return value
NextArgument ==
    IF cleaned = <<>> THEN name
    ELSE [missing |-> FALSE, text |-> cleaned[Len(cleaned)]]

IdleMatcher ==
    /\ match_threshold = 80
    /\ exact_match_index = EmptyDict
    /\ prefix_index = EmptyDict
    /\ token_index = EmptyDict
    /\ refs = <<>>
    /\ op = "init"
    /\ query = <<>>
    /\ candidates = <<>>
    /\ results = <<>>
    /\ path = <<>>

InitClean ==
    /\ IdleMatcher /\ IdleBatch /\ IdleQuality /\ IdleLoad /\ IdleExtract
    /\ IdleTail
    /\ name \in RawNames
    /\ impl = "none"
    /\ cleaned = <<>>

CleanFast ==
    /\ impl \in {"none", "fast"} /\ Len(cleaned) < 2
    /\ impl' = "fast"
    /\ cleaned' = Append(cleaned, FastClean(NextArgument))
    /\ UNCHANGED <<name, matcherVars, batchVars, qualityVars, loadVars,
                   extractVars, tailVars>>

CleanQuick ==
    /\ impl \in {"none", "quick"} /\ Len(cleaned) < 2
    /\ impl' = "quick"
    /\ cleaned' = Append(cleaned, QuickClean(NextArgument))
    /\ UNCHANGED <<name, matcherVars, batchVars, qualityVars, loadVars,
                   extractVars, tailVars>>

CleanMatching ==
    /\ impl \in {"none", "matching"} /\ Len(cleaned) < 2
    /\ impl' = "matching"
    /\ cleaned' = Append(cleaned, MatchingClean(NextArgument))
    /\ UNCHANGED <<name, matcherVars, batchVars, qualityVars, loadVars,
                   extractVars, tailVars>>

CleanEfficient ==
    /\ impl \in {"none", "efficient"} /\ Len(cleaned) < 2
    /\ impl' = "efficient"
    /\ cleaned' = Append(cleaned, EfficientClean(NextArgument))
    /\ UNCHANGED <<name, matcherVars, batchVars, qualityVars, loadVars,
                   extractVars, tailVars>>

NextClean == CleanFast \/ CleanQuick \/ CleanMatching \/ CleanEfficient

SpecClean == InitClean /\ [][NextClean]_vars

----------------------------------------------------------------------------
(* Part 3: batch matching on the reference table of the tests *)

\* the longest batch_data / companies_df given to one call
MaxBatch == 2

WOYUNTANG_LLC == <<"W","O","Y","U","N","T","A","N","G"," ","L","L","C">>

ACME_CORP == <<"A","C","M","E"," ","C","O","R","P">>

TEST_INC == <<"T","E","S","T"," ","I","N","C">>

ACME_CORPORATION ==
    <<"A","C","M","E"," ","C","O","R","P","O","R","A","T","I","O","N">>

TEST_INCORPORATED ==
    <<"T","E","S","T"," ","I","N","C","O","R","P","O","R","A","T","E","D">>

NONEXISTENT_COMPANY ==
    <<"N","O","N","E","X","I","S","T","E","N","T"," ",
      "C","O","M","P","A","N","Y">>

\* officers_data of setup_method
officers_data ==
    << [company_name |-> WOYUNTANG_LLC, doc_number |-> "L24000326550"],
       [company_name |-> ACME_CORP, doc_number |-> "L24000326551"],
       [company_name |-> TEST_INC, doc_number |-> "L24000326552"] >>

\* officers_df of setup_method: clean_name is clean_company_name of the name
officers_df ==
    [i \in DOMAIN officers_data |->
        [clean_name |-> FastClean([missing |-> FALSE,
                                   text |-> officers_data[i].company_name]),
         doc_number |-> officers_data[i].doc_number]]

\* the rows of table at the positions in keep, in the order of the table
RECURSIVE SelectRows(_, _, _)
SelectRows(table, keep, i) ==
    IF i > Len(table) THEN <<>>
    ELSE (IF i \in keep THEN <<table[i]>> ELSE <<>>)
         \o SelectRows(table, keep, i + 1)

\* officers_df and the tables that hold a part of its rows
OfficerTables ==
    { SelectRows(officers_df, keep, 1) : keep \in SUBSET DOMAIN officers_df }

\* a company_data whose clean_name is the str clean_company_name returns
StrQuery(original, raw) ==
    [original_name |-> original,
     clean_name |-> FastClean([missing |-> FALSE, text |-> raw]),
     is_str |-> TRUE]

\* the company_data of the tests, and one whose clean_name is the number
\* 123 (given by its digits) instead of a str
TestQueries ==
    { StrQuery("WOYUNTANG LLC", WOYUNTANG_LLC),
      StrQuery("ACME CORPORATION", ACME_CORPORATION),
      StrQuery("TEST INCORPORATED", TEST_INCORPORATED),
      StrQuery("NONEXISTENT COMPANY", NONEXISTENT_COMPANY),
      [original_name |-> "123", clean_name |-> <<"1","2","3">>,
       is_str |-> FALSE] }

StrQueries == { q \in TestQueries : q.is_str }

Batches == UNION {[1..n -> TestQueries] : n \in 0..MaxBatch}

\* `not company_name`: false for a non-empty str and for a non-zero number
Truthy(company_data) ==
    IF company_data.is_str THEN company_data.clean_name # <<>>
    ELSE company_data.clean_name # <<"0">>

\* fast_match_single raises TypeError: a truthy clean_name that is not a str
\* passes `not company_name` and the exact lookup, and find_candidates takes
\* its len()
Raises(company_data) == ~company_data.is_str /\ Truthy(company_data)

\* match_batch(batch_data): what the caller gets, for every order the
\* candidate lists can have; an exception of fast_match_single leaves the
\* loop and the method, and the results list is lost
RECURSIVE MatchBatchOutcomes(_, _, _, _, _, _)
MatchBatchOutcomes(eidx, pidx, tidx, threshold, batch_data, acc) ==
    IF batch_data = <<>> THEN {[raised |-> FALSE, results |-> acc]}
    ELSE LET company_data == Head(batch_data) IN
         IF Raises(company_data)
         THEN {[raised |-> TRUE, results |-> <<>>]}
         ELSE UNION {
                MatchBatchOutcomes(eidx, pidx, tidx, threshold,
                    Tail(batch_data),
                    Append(acc, MatchSingle(eidx, company_data, cands,
                                            threshold))) :
                cands \in ListsOf(CandidateSet(pidx, tidx,
                                               company_data.clean_name)) }

\* the indexes after the lookups of a batch
RECURSIVE BatchLookupEffect(_, _, _, _)
BatchLookupEffect(eidx, pidx, tidx, batch_data) ==
    IF batch_data = <<>> THEN [prefix |-> pidx, token |-> tidx]
    ELSE LET company_data == Head(batch_data) IN
         IF Raises(company_data) THEN [prefix |-> pidx, token |-> tidx]
         ELSE IF ReturnsEarly(eidx, company_data)
         THEN BatchLookupEffect(eidx, pidx, tidx, Tail(batch_data))
         ELSE LET after == LookupEffect(pidx, tidx, company_data.clean_name)
              IN  BatchLookupEffect(eidx, after.prefix, after.token,
                                    Tail(batch_data))

batch_size == 100

\* the loop of match_companies_parallel over slices of batch_size rows; an
\* exception of match_batch leaves the loop and the method
RECURSIVE ParallelOutcomes(_, _, _, _, _, _)
ParallelOutcomes(eidx, pidx, tidx, threshold, company_data, acc) ==
    IF company_data = <<>> THEN {[raised |-> FALSE, results |-> acc]}
    ELSE UNION {
           IF batch_results.raised THEN {batch_results}
           ELSE ParallelOutcomes(eidx, pidx, tidx, threshold,
                                 Drop(company_data, batch_size),
                                 acc \o batch_results.results) :
           batch_results \in MatchBatchOutcomes(eidx, pidx, tidx, threshold,
                                 Take(company_data, batch_size), <<>>) }

RECURSIVE ParallelLookupEffect(_, _, _, _)
ParallelLookupEffect(eidx, pidx, tidx, company_data) ==
    IF company_data = <<>> THEN [prefix |-> pidx, token |-> tidx]
    ELSE LET this == Take(company_data, batch_size)
             after == BatchLookupEffect(eidx, pidx, tidx, this)
         IN  IF \E i \in DOMAIN this : Raises(this[i]) THEN after
             ELSE ParallelLookupEffect(eidx, after.prefix, after.token,
                                       Drop(company_data, batch_size))

\* setup_method: a matcher of threshold 80, nothing indexed
InitBatch ==
    /\ match_threshold = 80
    /\ exact_match_index = EmptyDict
    /\ prefix_index = EmptyDict
    /\ token_index = EmptyDict
    /\ refs = <<>>
    /\ op = "init"
    /\ query = <<>>
    /\ candidates = <<>>
    /\ results = <<>>
    /\ path = <<>>
    /\ IdleClean /\ IdleBatch /\ IdleQuality /\ IdleLoad /\ IdleExtract
    /\ IdleTail

\* build_indexes(self.officers_df) of the tests
BuildTestIndexes == BuildIndexesOver(OfficerTables)

\* fast_match_single(company_data) of the tests
TestMatchSingle ==
    FastMatchSingleOn({[original_name |-> q.original_name,
                        clean_name |-> q.clean_name] : q \in StrQueries})

\* match_batch(batch_data), called once on the indexes build_indexes left
MatchBatch ==
    /\ op = "build_indexes"
    /\ \E batch_data \in Batches :
        LET after == BatchLookupEffect(exact_match_index, prefix_index,
                                       token_index, batch_data)
        IN  /\ batch' = batch_data
            /\ outcome' \in MatchBatchOutcomes(exact_match_index,
                                prefix_index, token_index, match_threshold,
                                batch_data, <<>>)
            /\ prefix_index' = after.prefix
            /\ token_index' = after.token
    /\ op' = "match_batch"
    /\ query' = <<>>
    /\ candidates' = <<>>
    /\ results' = <<>>
    /\ path' = <<>>
    /\ UNCHANGED <<match_threshold, exact_match_index, refs, cleanVars,
                   qualityVars, loadVars, extractVars, tailVars>>

\* match_companies_parallel(companies_df, officers_df): build_indexes, the
\* company_data list, then match_batch on each slice of it
MatchCompaniesParallel ==
    /\ op = "init"
    /\ \E officers \in OfficerTables, company_data \in Batches :
        LET idx == IndexRows([exact |-> exact_match_index,
                              prefix |-> prefix_index,
                              token |-> token_index], officers)
            after == ParallelLookupEffect(idx.exact, idx.prefix, idx.token,
                                          company_data)
        IN  /\ refs' = refs \o officers
            /\ exact_match_index' = idx.exact
            /\ prefix_index' = after.prefix
            /\ token_index' = after.token
            /\ batch' = company_data
            /\ outcome' \in ParallelOutcomes(idx.exact, idx.prefix,
                                idx.token, match_threshold, company_data,
                                <<>>)
    /\ op' = "match_companies_parallel"
    /\ query' = <<>>
    /\ candidates' = <<>>
    /\ results' = <<>>
    /\ path' = <<>>
    /\ UNCHANGED <<match_threshold, cleanVars, qualityVars, loadVars,
                   extractVars, tailVars>>

NextBatch ==
    BuildTestIndexes \/ TestMatchSingle \/ MatchBatch
        \/ MatchCompaniesParallel

SpecBatch == InitBatch /\ [][NextBatch]_vars

----------------------------------------------------------------------------
(* Part 4: the two get_match_quality *)

\* the scores classified: 0, 0.5, 1, ... 100
Scores == { Frac(k, 2) : k \in 0..200 }

\* QuickDocumentMatcher.get_match_quality
quick_get_match_quality(score) ==
    IF ScoreGE(score, 95) THEN "Excellent"
    ELSE IF ScoreGE(score, 85) THEN "Very Good"
    ELSE IF ScoreGE(score, 75) THEN "Good"
    ELSE IF ScoreGE(score, 65) THEN "Fair"
    ELSE "Poor"

InitQuality ==
    /\ IdleMatcher /\ IdleClean /\ IdleBatch /\ IdleLoad /\ IdleExtract
    /\ IdleTail
    /\ given_score \in Scores
    /\ quality = [of |-> "none", tier |-> ""]

\* FastDocumentMatcher.get_match_quality(score)
FastQuality ==
    /\ quality' = [of |-> "fast", tier |-> get_match_quality(given_score)]
    /\ UNCHANGED <<given_score, matcherVars, cleanVars, batchVars, loadVars,
                   extractVars, tailVars>>

\* QuickDocumentMatcher.get_match_quality(score)
QuickQuality ==
    /\ quality' = [of |-> "quick",
                   tier |-> quick_get_match_quality(given_score)]
    /\ UNCHANGED <<given_score, matcherVars, cleanVars, batchVars, loadVars,
                   extractVars, tailVars>>

NextQuality == FastQuality \/ QuickQuality

SpecQuality == InitQuality /\ [][NextQuality]_vars

----------------------------------------------------------------------------
(* Part 5: load_data_efficiently, the columns of the officers CSV *)

\* the most columns in the header of the CSV file
MaxCols == 3

\* str.lower()
LowerChar(c) ==
    IF c \in Elems(UpperLetters)
    THEN LowerLetters[CHOOSE i \in DOMAIN UpperLetters : UpperLetters[i] = c]
    ELSE c

Lower(s) == [i \in DOMAIN s |-> LowerChar(s[i])]

\* sub in s
Contains(sub, s) ==
    \E i \in 1..(Len(s) - Len(sub) + 1) : SubSeq(s, i, i + Len(sub) - 1) = sub

DocWord == <<"d","o","c">>

NumberWord == <<"n","u","m","b","e","r">>

CompanyWord == <<"c","o","m","p","a","n","y">>

NameWord == <<"n","a","m","e">>

DocNumberColumn == <<"d","o","c","_","n","u","m","b","e","r">>

CompanyNameColumn == <<"c","o","m","p","a","n","y","_","n","a","m","e">>

\* column names a header can hold
ColumnNames ==
    { DocNumberColumn,
      <<"D","o","c","u","m","e","n","t"," ","N","u","m","b","e","r">>,
      <<"D","O","C","_","I","D">>,
      CompanyNameColumn,
      <<"C","o","m","p","a","n","y"," ","N","a","m","e">>,
      <<"C","o","m","p","a","n","y">>,
      <<"n","a","m","e">> }

\* sample.columns: pandas gives the columns of a file distinct names
Headers ==
    { h \in UNION {[1..n -> ColumnNames] : n \in 1..MaxCols} :
        \A i, j \in DOMAIN h : i # j => h[i] # h[j] }

\* the tests of the detection loop on one column
IsDocCol(col) ==
    \/ Contains(DocWord, Lower(col)) /\ Contains(NumberWord, Lower(col))
    \/ Contains(DocNumberColumn, Lower(col))

IsCompanyCol(col) ==
    \/ Contains(CompanyWord, Lower(col)) /\ Contains(NameWord, Lower(col))
    \/ Contains(CompanyNameColumn, Lower(col))

\* the value a variable of the detection loop has after the loop: the last
\* column among hits, the positions that pass the test, <<>> (None) when
\* there is none
LastColumn(cols, hits) ==
    IF hits = {} THEN <<>>
    ELSE cols[CHOOSE i \in hits : \A j \in hits : j <= i]

\* the first column whose lower-case name contains word, <<>> when none
FirstContaining(cols, word) ==
    LET hits == { i \in DOMAIN cols : Contains(word, Lower(cols[i])) }
    IN  IF hits = {} THEN <<>>
        ELSE cols[CHOOSE i \in hits : \A j \in hits : i <= j]

\* pd.read_csv(csv_file, usecols=[doc_col, company_col]) followed by
\* officers_df.columns = ['doc_number', 'company_name']: the columns come in
\* the order of the file and are renamed by position; each column of the
\* table is given with the column of the file its values come from
UseCols(cols, doc_col, company_col) ==
    LET kept == SelectRows(cols, { i \in DOMAIN cols :
                                     cols[i] \in {doc_col, company_col} }, 1)
    IN  << [name |-> DocNumberColumn, data |-> kept[1]],
           [name |-> CompanyNameColumn, data |-> kept[2]] >>

\* does the try block raise: usecols names a column the file does not have,
\* or two names are assigned to a table of one column
UseColsRaises(cols, doc_col, company_col) ==
    \/ doc_col \notin Elems(cols)
    \/ company_col \notin Elems(cols)
    \/ doc_col = company_col

\* officers_df.rename(columns={col: new_name}, inplace=True)
Rename(table, col, new_name) ==
    [i \in DOMAIN table |->
        IF table[i].name = col THEN [name |-> new_name, data |-> table[i].data]
        ELSE table[i]]

\* the except branch: all columns, the first column containing 'doc' and
\* the first containing 'company' renamed when the table lacks the name
AllColumns(cols) ==
    LET table == [i \in DOMAIN cols |-> [name |-> cols[i], data |-> cols[i]]]
        doc_guess == FirstContaining(cols, DocWord)
        table1 ==
            IF DocNumberColumn \notin Elems(cols) /\ doc_guess # <<>>
            THEN Rename(table, doc_guess, DocNumberColumn) ELSE table
        names1 == [i \in DOMAIN table1 |-> table1[i].name]
        company_guess == FirstContaining(names1, CompanyWord)
    IN  IF CompanyNameColumn \notin Elems(names1) /\ company_guess # <<>>
        THEN Rename(table1, company_guess, CompanyNameColumn) ELSE table1

\* load_data_efficiently(csv_file, excel_file) for a readable CSV file with
\* the header cols: officers_df and how it was obtained
LoadResult(cols) ==
    LET found_doc ==
            LastColumn(cols, { i \in DOMAIN cols : IsDocCol(cols[i]) })
        found_company ==
            LastColumn(cols, { i \in DOMAIN cols : IsCompanyCol(cols[i]) })
        defaults == found_doc = <<>> \/ found_company = <<>>
        doc_col == IF defaults THEN DocNumberColumn ELSE found_doc
        company_col == IF defaults THEN CompanyNameColumn ELSE found_company
    IN  IF UseColsRaises(cols, doc_col, company_col)
        THEN [state |-> "returned", defaults |-> defaults,
              all_columns |-> TRUE, officers_df |-> AllColumns(cols)]
        ELSE [state |-> "returned", defaults |-> defaults,
              all_columns |-> FALSE,
              officers_df |-> UseCols(cols, doc_col, company_col)]

InitLoad ==
    /\ IdleMatcher /\ IdleClean /\ IdleBatch /\ IdleQuality /\ IdleExtract
    /\ IdleTail
    /\ columns \in Headers
    /\ loaded = [state |-> "none"]

LoadDataEfficiently ==
    /\ loaded.state = "none"
    /\ loaded' = LoadResult(columns)
    /\ UNCHANGED <<columns, matcherVars, cleanVars, batchVars, qualityVars,
                   extractVars, tailVars>>

NextLoad == LoadDataEfficiently

SpecLoad == InitLoad /\ [][NextLoad]_vars

----------------------------------------------------------------------------
(* Part 6: extract_officer_from_line (extract_officers_full.py) *)

\* s[a:b]
Slice(s, a, b) == SubSeq(s, Min(a, Len(s)) + 1, Min(b, Len(s)))

\* regex elements.  Alt(words): one of the words, the earlier word first.
\* Rep(class, min, max, greedy): between min and max characters of the
\* class, the longest run first when greedy, the shortest first when lazy.
Alt(words) == [kind |-> "alt", words |-> words]

Rep(class, min, max, greedy) ==
    [kind |-> "rep", class |-> class, min |-> min, max |-> max,
     greedy |-> greedy]

\* no upper bound of a repeat: longer than any line
NoMax == 100000

One(class) == Rep(class, 1, 1, TRUE)

\* the positions where a match of element e that starts after p characters
\* of s can end, in the order the regex engine tries them
Ends(e, s, p) ==
    IF e.kind = "alt"
    THEN LET hit(w) == p + Len(w) <= Len(s)
                       /\ SubSeq(s, p + 1, p + Len(w)) = w
             hits == SelectSeq(e.words, hit)
         IN  [i \in DOMAIN hits |-> p + Len(hits[i])]
    ELSE LET cap == Min(e.max, Len(s) - p)
             stops == { j \in 0..cap : j = cap \/ s[p + j + 1] \notin e.class }
             run == CHOOSE j \in stops : \A m \in stops : j <= m
         IN  IF run < e.min THEN <<>>
             ELSE [k \in 1..(run - e.min + 1) |->
                      IF e.greedy THEN p + run - (k - 1)
                      ELSE p + e.min + (k - 1)]

\* can the elements k.. of pat match s from position p on
RECURSIVE CanMatch(_, _, _, _)
CanMatch(pat, s, k, p) ==
    \/ k > Len(pat)
    \/ LET ends == Ends(pat[k], s, p)
       IN  \E i \in DOMAIN ends : CanMatch(pat, s, k + 1, ends[i])

\* the match the engine finds for the elements k.. from position p on: the
\* positions before each element and after the last one
RECURSIVE MatchFrom(_, _, _, _)
MatchFrom(pat, s, k, p) ==
    IF k > Len(pat) THEN <<p>>
    ELSE LET ends == Ends(pat[k], s, p)
             ok == { i \in DOMAIN ends : CanMatch(pat, s, k + 1, ends[i]) }
             first == CHOOSE i \in ok : \A j \in ok : i <= j
         IN  <<p>> \o MatchFrom(pat, s, k + 1, ends[first])

\* re.search(pat, s): the match at the leftmost start, <<>> for None
Search(pat, s) ==
    LET starts == { p \in 0..Len(s) : CanMatch(pat, s, 1, p) }
    IN  IF starts = {} THEN <<>>
        ELSE MatchFrom(pat, s, 1, CHOOSE p \in starts : \A q \in starts : p <= q)

\* match.group(): the text matched by the elements a..b of the pattern
Group(s, match, a, b) == SubSeq(s, match[a] + 1, match[b + 1])

Spaces == {" ", "\t", "\n"}

NameChars == Elems(UpperLetters) \cup {"-", "'", " "}

CityChars == Elems(UpperLetters) \cup Spaces \cup {"-", "."}

Roles ==
    << <<"A","M","B","R">>, <<"M","G","R","M">>, <<"M","G","R">>, <<"C","E","O">>, <<"C","F","O">>, <<"C","O","O">>, <<"P","R","E","S">>, <<"V","P">>, <<"S","E","C">>,
       <<"D","I","R">>, <<"A","P">>, <<"P">> >>

\* (AMBR|...|P)\s*([PCMD])([A-Z][A-Z\-' ]{8,20})\s+([A-Z][A-Z\-' ]{8,20})
\* \s+([A-Z]?)\s+
officer_pattern ==
    << Alt(Roles),
       Rep(Spaces, 0, NoMax, TRUE),
       One({"P", "C", "M", "D"}),
       One(Elems(UpperLetters)),
       Rep(NameChars, 8, 20, TRUE),
       Rep(Spaces, 1, NoMax, TRUE),
       One(Elems(UpperLetters)),
       Rep(NameChars, 8, 20, TRUE),
       Rep(Spaces, 1, NoMax, TRUE),
       Rep(Elems(UpperLetters), 0, 1, TRUE),
       Rep(Spaces, 1, NoMax, TRUE) >>

\* ([A-Z\s\-\.]+?)\s+([A-Z]{2})(\d{5})
csz_pattern ==
    << Rep(CityChars, 1, NoMax, FALSE),
       Rep(Spaces, 1, NoMax, TRUE),
       Rep(Elems(UpperLetters), 2, 2, TRUE),
       Rep(Digits, 5, 5, TRUE) >>

\* ([A-Z\s\-\.]+?),\s*([A-Z]{2})(\d{5})
csz_pattern_comma ==
    << Rep(CityChars, 1, NoMax, FALSE),
       One({","}),
       Rep(Spaces, 0, NoMax, TRUE),
       Rep(Elems(UpperLetters), 2, 2, TRUE),
       Rep(Digits, 5, 5, TRUE) >>

\* ([A-Z\s\-\.]+?)\s+([A-Z]{2})\s+(\d{5})
csz_pattern_space ==
    << Rep(CityChars, 1, NoMax, FALSE),
       Rep(Spaces, 1, NoMax, TRUE),
       Rep(Elems(UpperLetters), 2, 2, TRUE),
       Rep(Spaces, 1, NoMax, TRUE),
       Rep(Digits, 5, 5, TRUE) >>

\* ([A-Z\s\-\.]+?)\s+([A-Z]{2})
city_state_pattern ==
    << Rep(CityChars, 1, NoMax, FALSE),
       Rep(Spaces, 1, NoMax, TRUE),
       Rep(Elems(UpperLetters), 2, 2, TRUE) >>

\* the four address patterns in the order they are tried, each with the
\* elements of its state and zip groups (0: the pattern has no zip group)
AddressPatterns ==
    << [pat |-> csz_pattern, state |-> 3, zip |-> 4],
       [pat |-> csz_pattern_comma, state |-> 4, zip |-> 5],
       [pat |-> csz_pattern_space, state |-> 3, zip |-> 5],
       [pat |-> city_state_pattern, state |-> 3, zip |-> 0] >>

\* ParseAddress2 with the patterns tried from the last to the first
RECURSIVE ParseAddress2_LastFirst(_, _)
ParseAddress2_LastFirst(address2_clean, i) ==
    IF i > Len(AddressPatterns)
    THEN [city |-> <<>>, state |-> <<>>, zip_code |-> <<>>,
          address2 |-> address2_clean]
    ELSE LET p == AddressPatterns[Len(AddressPatterns) + 1 - i]
             match == Search(p.pat, address2_clean)
         IN  IF match = <<>> THEN ParseAddress2_LastFirst(address2_clean, i + 1)
             ELSE [city |-> Strip(Group(address2_clean, match, 1, 1)),
                   state |-> Strip(Group(address2_clean, match, p.state,
                                         p.state)),
                   zip_code |->
                       IF p.zip = 0 THEN <<>>
                       ELSE Strip(Group(address2_clean, match, p.zip, p.zip)),
                   address2 |-> Strip(Take(address2_clean, match[1]))]

\* city, state, zip_code and address2 from address2_clean: the first of the
\* patterns i.. that matches, else the cleaned text as address2
RECURSIVE ParseAddress2(_, _)
ParseAddress2(address2_clean, i) ==
    IF i > Len(AddressPatterns)
    THEN [city |-> <<>>, state |-> <<>>, zip_code |-> <<>>,
          address2 |-> address2_clean]
    ELSE LET p == AddressPatterns[i]
             match == Search(p.pat, address2_clean)
         IN  IF match = <<>> THEN ParseAddress2(address2_clean, i + 1)
             ELSE [city |-> Strip(Group(address2_clean, match, 1, 1)),
                   state |-> Strip(Group(address2_clean, match, p.state,
                                         p.state)),
                   zip_code |->
                       IF p.zip = 0 THEN <<>>
                       ELSE Strip(Group(address2_clean, match, p.zip, p.zip)),
                   address2 |-> Strip(Take(address2_clean, match[1]))]

\* sep.join of the non-empty items
RECURSIVE JoinNonEmpty(_, _)
JoinNonEmpty(items, sep) ==
    IF items = <<>> THEN <<>>
    ELSE LET rest == JoinNonEmpty(Tail(items), sep)
         IN  IF Head(items) = <<>> THEN rest
             ELSE IF rest = <<>> THEN Head(items)
             ELSE Head(items) \o sep \o rest

\* the least length of a line that is searched
MinLineLength == 900

SearchStart == 600

CompanyStart == 12

Address1Start == 165

Address2Start == 315

Address2End == 465

\* extract_officer_from_line without the check of the length of the line
ExtractOfficer_NoLengthCheck(ln, timestamp) ==
    LET search_section == Slice(ln, SearchStart, MinLineLength)
        match == Search(officer_pattern, search_section)
    IN  IF match = <<>> THEN [kind |-> "None"]
        ELSE [kind |-> "record",
              officer_role |-> Group(search_section, match, 1, 1)]

\* extract_officer_from_line(line): None or the record returned
ExtractOfficer(ln, timestamp) ==
    LET search_section == Slice(ln, SearchStart, MinLineLength)
        match == Search(officer_pattern, search_section)
        role == Group(search_section, match, 1, 1)
        status == Group(search_section, match, 3, 3)
        last_name == Strip(Group(search_section, match, 4, 5))
        first_name == Strip(Group(search_section, match, 7, 8))
        middle == Strip(Group(search_section, match, 10, 10))
        company_name == IF Len(ln) > Address1Start
                        THEN Strip(Slice(ln, CompanyStart, Address1Start))
                        ELSE Strip(Drop(ln, CompanyStart))
        doc_num == IF Len(ln) > CompanyStart
                   THEN Strip(Slice(ln, 0, CompanyStart)) ELSE Strip(ln)
        address1 == IF Len(ln) > Address2Start
                    THEN Strip(Slice(ln, Address1Start, Address2Start))
                    ELSE <<>>
        address2_raw == Strip(Slice(ln, Address2Start, Address2End))
        address2_clean == Strip(CollapseSpaces(address2_raw))
        parsed == IF Len(ln) > Address2End
                  THEN ParseAddress2(address2_clean, 1)
                  ELSE [city |-> <<>>, state |-> <<>>, zip_code |-> <<>>,
                        address2 |-> <<>>]
    IN  IF Len(ln) < MinLineLength THEN [kind |-> "None"]
        ELSE IF match = <<>> THEN [kind |-> "None"]
        ELSE [kind |-> "record",
              doc_number |-> doc_num,
              company_name |-> company_name,
              officer_role |-> role,
              officer_last |-> last_name,
              officer_first |-> first_name,
              officer_middle |-> middle,
              officer_full_name |->
                  Strip(first_name \o <<" ">> \o middle \o <<" ">>
                        \o last_name),
              status |-> status,
              address |-> JoinNonEmpty(<<address1, parsed.address2>>,
                                       <<" ">>),
              city_state_zip |->
                  JoinNonEmpty(<<parsed.city, parsed.state, parsed.zip_code>>,
                               <<",", " ">>),
              city |-> parsed.city,
              state |-> parsed.state,
              zip_code |-> parsed.zip_code,
              extraction_timestamp |-> timestamp]

\* s in a field of n characters, filled with spaces
Pad(s, n) == [i \in 1..n |-> IF i <= Len(s) THEN s[i] ELSE " "]

\* the officer fields of a line: role, status, last name, first name, middle
OfficerText(o) ==
    Pad(o.role, 4) \o o.status \o Pad(o.last, 20) \o Pad(o.first, 14)
        \o Pad(o.middle, 2)

\* a line with the fields at the offsets extract_officer_from_line reads,
\* cut or filled to len characters
MakeLine(f, len) ==
    Pad(Pad(f.doc, CompanyStart)
        \o Pad(f.company, Address1Start - CompanyStart)
        \o Pad(f.street, Address2Start - Address1Start)
        \o Pad(f.address2, Address2End - Address2Start)
        \o Pad(<<>>, SearchStart - Address2End)
        \o f.officer,
        len)

DocL24000326550 == <<"L","2","4","0","0","0","3","2","6","5","5","0">>

MainStreet == <<"1","2","3"," ","M","A","I","N"," ","S","T">>

Wilmington == <<"W","I","L","M","I","N","G","T","O","N">>

Delaware == <<"D","E">>

Zip19801 == <<"1","9","8","0","1">>

\* the line of the tests of the repository
test_line ==
    << "L","2","4","0","0","0","3","2","6","5","5","0","W","O","Y","U",
       "N","T","A","N","G"," ","L","L","C"," "," "," "," "," "," "," ",
       " "," "," "," "," "," "," "," "," "," "," "," ","1","2","3"," ",
       "M","A","I","N"," ","S","T"," "," "," "," "," "," "," "," "," ",
       " "," "," "," "," "," "," "," "," "," "," ","W","I","L","M","I",
       "N","G","T","O","N"," ","D","E","1","9","8","0","1"," "," "," ",
       " "," "," "," "," "," "," "," "," "," "," "," "," "," "," "," ",
       " ","J","O","H","N"," ","D","O","E"," ","C","E","O" >>

\* a second address range with two cities: 'MIAMI FL 33101' for the third
\* pattern and, after it, 'TAMPA FL33602' for the first
MiamiThenTampa ==
    <<"M","I","A","M","I"," ","F","L"," ","3","3","1","0","1"," "," ",
      "T","A","M","P","A"," ","F","L","3","3","6","0","2">>

\* the ways city, state and zip are written in the second address range;
\* zip tells the forms that hold WILMINGTON, DE and 19801
Address2Forms ==
    { [text |-> <<"W","I","L","M","I","N","G","T","O","N"," ","D","E","1","9","8","0","1">>, zip |-> TRUE],
      [text |-> <<"W","I","L","M","I","N","G","T","O","N",","," ","D","E","1","9","8","0","1">>, zip |-> TRUE],
      [text |-> <<"W","I","L","M","I","N","G","T","O","N"," "," ","D","E"," ","1","9","8","0","1">>, zip |-> TRUE],
      [text |-> <<"W","I","L","M","I","N","G","T","O","N"," ","D","E">>, zip |-> FALSE],
      [text |-> <<"A","P","T"," ","4">>, zip |-> FALSE],
      [text |-> MiamiThenTampa, zip |-> FALSE],
      [text |-> <<>>, zip |-> FALSE] }

\* officers placed in the window: with and without a middle initial, a
\* name with a hyphen and an apostrophe, a role with no name, no officer
PlacedOfficers ==
    { [role |-> <<"C","E","O">>, status |-> <<"P">>, last |-> <<"D","O","E">>,
       first |-> <<"J","O","H","N">>, middle |-> <<>>],
      [role |-> <<"C","E","O">>, status |-> <<"P">>, last |-> <<"D","O","E">>,
       first |-> <<"J","O","H","N">>, middle |-> <<"A">>],
      [role |-> <<"M","G","R">>, status |-> <<"C">>, last |-> <<"O","'","N","E","I","L","-","S","M","I","T","H">>,
       first |-> <<"M","A","R","Y"," ","A","N","N">>, middle |-> <<>>],
      [role |-> <<"C","E","O">>, status |-> <<>>, last |-> <<>>, first |-> <<>>,
       middle |-> <<>>],
      [role |-> <<>>, status |-> <<>>, last |-> <<>>, first |-> <<>>,
       middle |-> <<>>] }

LineLengths == {MinLineLength - 1, MinLineLength, MinLineLength + 1}

\* the fields placed in a line
Placements ==
    [doc : {DocL24000326550}, company : {WOYUNTANG_LLC, ACME_CORP},
     street : {MainStreet}, form : Address2Forms, who : PlacedOfficers,
     len : LineLengths]

LineOf(pl) ==
    MakeLine([doc |-> pl.doc, company |-> pl.company, street |-> pl.street,
              address2 |-> pl.form.text, officer |-> OfficerText(pl.who)],
             pl.len)

\* the lines given to extract_officer_from_line
Lines ==
    { LineOf(pl) : pl \in Placements }
        \cup {test_line, <<>>, DocL24000326550}

\* values of datetime.now().strftime('%Y-%m-%d %H:%M:%S')
Timestamps == {"2025-10-04 16:17:42", "2025-10-04 16:17:43"}

InitExtract ==
    /\ IdleMatcher /\ IdleClean /\ IdleBatch /\ IdleQuality /\ IdleLoad
    /\ IdleTail
    /\ raw_line \in Lines
    /\ officer = [kind |-> "none"]

ExtractOfficerFromLine ==
    /\ officer.kind = "none"
    /\ \E timestamp \in Timestamps :
           officer' = ExtractOfficer(raw_line, timestamp)
    /\ UNCHANGED <<raw_line, matcherVars, cleanVars, batchVars, qualityVars,
                   loadVars, tailVars>>

NextExtract == ExtractOfficerFromLine

SpecExtract == InitExtract /\ [][NextExtract]_vars

----------------------------------------------------------------------------
(* Part 7: build_indexes called again on a matcher that was built before,  *)
(* as a second match_companies_parallel call on one matcher does           *)

MaxRebuild == 1

\* the tables of the two calls
RebuildTables == UNION {[1..n -> Rows] : n \in 0..MaxRebuild}

\* the first build_indexes call
BuildFirst == BuildIndexesOver(RebuildTables)

\* the second build_indexes call: the loop runs on the dictionaries the
\* matcher holds, __init__ being the only place that empties them
BuildAgain ==
    /\ op = "build_indexes"
    /\ \E rows \in RebuildTables :
        LET idx == IndexRows([exact |-> exact_match_index,
                              prefix |-> prefix_index,
                              token |-> token_index], rows)
        IN  /\ refs' = refs \o rows
            /\ last_built' = rows
            /\ exact_match_index' = idx.exact
            /\ prefix_index' = idx.prefix
            /\ token_index' = idx.token
    /\ op' = "rebuild"
    /\ UNCHANGED <<match_threshold, query, candidates, results, path,
                   cleanVars, batchVars, qualityVars, loadVars, extractVars,
                   similarityVars, chunkVars>>

NextRebuild == BuildFirst \/ BuildAgain

SpecRebuild == Init /\ [][NextRebuild]_vars

----------------------------------------------------------------------------
(* Part 8: find_candidates on prefix lists longer than the cap of the      *)
(* fallback scan                                                           *)

MaxLong == 52

\* n rows of one clean name with n doc numbers
SameNameRows(clean_name, n) ==
    [i \in 1..n |-> [clean_name |-> clean_name, doc_number |-> ToString(i)]]

\* clean names of the rows of a long table: keys 'ABC', and 'ABD', 'ABDEF'
LongNames == { <<"A","B","C","D">>, <<"A","B","D","E","F">> }

\* tables of up to MaxLong rows of one name, followed by no row or by a row
\* of RowNames
LongTables ==
    { SameNameRows(n, k) \o last :
        n \in LongNames, k \in 0..MaxLong,
        last \in { <<>> } \cup
                 { <<[clean_name |-> m, doc_number |-> "L24000326550"]>> :
                     m \in LongNames } }

\* queries: too short for the fallback, no key with the same two
\* characters, the fallback on the keys that start with 'AB', a prefix and
\* a token of the table
LongQueries ==
    { <<"A","B">>, <<"X","Y","Z">>, <<"A","B","X">>, <<"A","B","X","Y","Z">>,
      <<"A","B","C">>, <<"A","B","D","E","F">>, <<"A","B","C","D">> }

\* the elements of S in one order
RECURSIVE SeqOf(_)
SeqOf(S) ==
    IF S = {} THEN <<>>
    ELSE LET x == CHOOSE y \in S : TRUE IN <<x>> \o SeqOf(S \ {x})

Reverse(list) == [i \in DOMAIN list |-> list[Len(list) + 1 - i]]

\* list(candidates) for a set of any size: every order of a set of at most
\* three elements, one order and its reverse for a larger set
OrdersOf(S) ==
    IF Cardinality(S) <= 3 THEN ListsOf(S)
    ELSE { SeqOf(S), Reverse(SeqOf(S)) }

BuildLongIndexes == BuildIndexesOver(LongTables)

\* find_candidates(company_name) on the long tables
FindCandidatesLong ==
    /\ op # "init"
    /\ \E company_name \in LongQueries :
        /\ query' = company_name
        /\ candidates' \in
               OrdersOf(CandidateSet(prefix_index, token_index, company_name))
        /\ prefix_index' =
               LookupEffect(prefix_index, token_index, company_name).prefix
        /\ token_index' =
               LookupEffect(prefix_index, token_index, company_name).token
    /\ op' = "find_candidates"
    /\ results' = <<>>
    /\ path' = <<>>
    /\ UNCHANGED <<match_threshold, exact_match_index, refs, cleanVars,
                   batchVars, qualityVars, loadVars, extractVars, tailVars>>

NextFallback == BuildLongIndexes \/ FindCandidatesLong

SpecFallback == Init /\ [][NextFallback]_vars

----------------------------------------------------------------------------
(* Part 9: EfficientCompanyMatcher.fast_similarity                         *)
(* (company_officer_matcher.py).  The float the function returns is given  *)
(* as the exact fraction of the same expression.                           *)

\* set(s.split())
TokenSet(s) == Elems(Split(s))

\* jaccard * 0.7 + len_sim * 0.3 for two fractions
Weighted(jaccard, len_sim) ==
    Frac(7 * jaccard.n * len_sim.d + 3 * len_sim.n * jaccard.d,
         10 * jaccard.d * len_sim.d)

\* fast_similarity with the two weights exchanged
FastSimilarity_WeightsExchanged(str1, str2) ==
    LET tokens1 == TokenSet(str1)
        tokens2 == TokenSet(str2)
        jaccard == Frac(100 * Cardinality(tokens1 \cap tokens2),
                        Cardinality(tokens1 \cup tokens2))
        len_sim == Frac(100 * Min(Len(str1), Len(str2)),
                        Max(Len(str1), Len(str2)))
    IN  IF str1 = <<>> \/ str2 = <<>> THEN Score0
        ELSE IF str1 = str2 THEN Score100
        ELSE IF tokens1 = {} \/ tokens2 = {} THEN Score0
        ELSE Weighted(len_sim, jaccard)

\* fast_similarity(str1, str2)
FastSimilarity(str1, str2) ==
    LET tokens1 == TokenSet(str1)
        tokens2 == TokenSet(str2)
        jaccard == Frac(100 * Cardinality(tokens1 \cap tokens2),
                        Cardinality(tokens1 \cup tokens2))
        len_sim == Frac(100 * Min(Len(str1), Len(str2)),
                        Max(Len(str1), Len(str2)))
    IN  IF str1 = <<>> \/ str2 = <<>> THEN Score0
        ELSE IF str1 = str2 THEN Score100
        ELSE IF tokens1 = {} \/ tokens2 = {} THEN Score0
        ELSE Weighted(jaccard, len_sim)

\* the strs compared: the empty name, clean names of one to three words,
\* the same words in another order, a word twice, and a str of one space,
\* which no clean_company_name returns
SimilarityNames ==
    { <<>>,
      <<"A">>,
      <<"B">>,
      <<"A"," ","B">>,
      <<"B"," ","A">>,
      <<"A"," ","A"," ","B">>,
      <<"A"," ","B"," ","C">>,
      <<"A","B">>,
      <<" ">> }

InitSimilarity ==
    /\ IdleMatcher /\ IdleClean /\ IdleBatch /\ IdleQuality /\ IdleLoad
    /\ IdleExtract /\ IdleRebuild /\ IdleChunks
    /\ sim_args \in [str1 : SimilarityNames, str2 : SimilarityNames]
    /\ sim_score = <<>>

FastSimilarityCall ==
    /\ sim_score = <<>>
    /\ sim_score' = <<FastSimilarity(sim_args.str1, sim_args.str2)>>
    /\ UNCHANGED <<sim_args, matcherVars, cleanVars, batchVars, qualityVars,
                   loadVars, extractVars, rebuildVars, chunkVars>>

NextSimilarity == FastSimilarityCall

SpecSimilarity == InitSimilarity /\ [][NextSimilarity]_vars

----------------------------------------------------------------------------
(* Part 10: process_file_in_chunks (extract_officers_full.py)              *)

MaxFileLines == 3

\* a line as the iteration over the open file gives it: with its line end
FileLine(text) == text \o <<"\n">>

\* a line of 899 characters and its line end, with the officer who placed
\* at offset 600
SignedOrNot(who) ==
    FileLine(LineOf([doc |-> DocL24000326550, company |-> WOYUNTANG_LLC,
                     street |-> MainStreet,
                     form |-> [text |-> Wilmington \o <<" ">> \o Delaware
                                          \o Zip19801,
                               zip |-> TRUE],
                     who |-> who, len |-> MinLineLength - 1]))

\* the lines of the files: one with an officer, one of the same length
\* without a signature, the short line of the tests
FileLinePool ==
    { SignedOrNot([role |-> <<"C","E","O">>, status |-> <<"P">>,
                   last |-> <<"D","O","E">>, first |-> <<"J","O","H","N">>,
                   middle |-> <<>>]),
      SignedOrNot([role |-> <<>>, status |-> <<>>, last |-> <<>>,
                   first |-> <<>>, middle |-> <<>>]),
      FileLine(test_line) }

Files == UNION {[1..n -> FileLinePool] : n \in 0..MaxFileLines}

\* chunk sizes below, at and above the number of lines of a file
ChunkSizes == 1..(MaxFileLines + 1)

\* file_path.name
SourceFile == "cordata.txt"

\* the body of `if officer_data:`: the record gets its source_file and
\* line_number and joins the chunk
AddOfficer(chunk, line_num, officer_data) ==
    IF officer_data.kind = "record"
    THEN Append(chunk, [source_file |-> SourceFile,
                        line_number |-> line_num] @@ officer_data)
    ELSE chunk

\* the end of an iteration: a chunk that reached size chunk_size goes to
\* all_officers and a new chunk starts
FlushChunk(chunk, all_officers, size) ==
    IF Len(chunk) >= size
    THEN [chunk |-> <<>>, all_officers |-> all_officers \o chunk]
    ELSE [chunk |-> chunk, all_officers |-> all_officers]

\* the loop over the lines from line_num on, entered with the chunk and the
\* all_officers of at; stamps[i] is the time at which line i is extracted
RECURSIVE ReadLines(_, _, _, _, _)
ReadLines(lines, stamps, size, line_num, at) ==
    IF line_num > Len(lines) THEN at
    ELSE ReadLines(lines, stamps, size, line_num + 1,
                   FlushChunk(AddOfficer(at.chunk, line_num,
                                         ExtractOfficer(lines[line_num],
                                                        stamps[line_num])),
                              at.all_officers, size))

\* after the loop: `if chunk: all_officers.extend(chunk)`
ExtendRemaining(at) == at.all_officers \o at.chunk

\* process_file_in_chunks(file_path, chunk_size) on a file of the given
\* lines: all_officers, or the ZeroDivisionError of the percentage printed
\* before the return when the file has no line
ProcessFile(lines, stamps, size) ==
    IF Len(lines) = 0
    THEN [state |-> "raised", error |-> "ZeroDivisionError"]
    ELSE [state |-> "returned",
          all_officers |->
              ExtendRemaining(ReadLines(lines, stamps, size, 1,
                                        [chunk |-> <<>>,
                                         all_officers |-> <<>>])),
          total_lines |-> Len(lines)]

InitChunks ==
    /\ IdleMatcher /\ IdleClean /\ IdleBatch /\ IdleQuality /\ IdleLoad
    /\ IdleExtract /\ IdleRebuild /\ IdleSimilarity
    /\ file_lines \in Files
    /\ chunk_size \in ChunkSizes
    /\ chunk_out = [state |-> "none"]

ProcessFileInChunks ==
    /\ chunk_out.state = "none"
    /\ \E stamps \in [DOMAIN file_lines -> Timestamps] :
           chunk_out' = ProcessFile(file_lines, stamps, chunk_size)
    /\ UNCHANGED <<file_lines, chunk_size, matcherVars, cleanVars, batchVars,
                   qualityVars, loadVars, extractVars, rebuildVars,
                   similarityVars>>

NextChunks == ProcessFileInChunks

SpecChunks == InitChunks /\ [][NextChunks]_vars

----------------------------------------------------------------------------
(* Properties of the matcher *)

\* the reference entries build_indexes indexes: rows with a non-empty name
RefEntries ==
    { <<refs[i].clean_name, refs[i].doc_number>> :
        i \in { j \in DOMAIN refs : refs[j].clean_name # <<>> } }

RefNames == { e[1] : e \in RefEntries }

\* the doc numbers the reference set pairs with a clean name
DocsOf(n) == { e[2] : e \in { x \in RefEntries : x[1] = n } }

\* the doc number of the first row, in input order, with clean name n
FirstDocOf(n) ==
    refs[CHOOSE i \in DOMAIN refs :
            /\ refs[i].clean_name = n
            /\ \A j \in 1..(i - 1) : refs[j].clean_name # n].doc_number

\* the doc number of the last row, in input order, with clean name n
LastDocOf(n) ==
    refs[CHOOSE i \in DOMAIN refs :
            /\ refs[i].clean_name = n
            /\ \A j \in (i + 1)..Len(refs) : refs[j].clean_name # n].doc_number

LastResult == results[Len(results)]

Accepted(r) == r.match_method \in {"Exact", "Fuzzy"} /\ r.matched_name # <<>>

\* the candidate set find_candidates computes for the current indexes
CandidatesFor(company_name) ==
    CandidateSet(prefix_index, token_index, company_name)

\* C1: a non-empty query clean name equal to a reference clean name gets
\* match_quality Exact, match_method Exact, score 100, itself as matched_name
\* and a doc number the reference set pairs with it, whatever the other
\* candidates and the threshold.
C1_ExactMatchPriority ==
    (op = "fast_match_single" /\ query # <<>> /\ query \in RefNames) =>
        /\ LastResult.match_quality = "Exact"
        /\ LastResult.match_method = "Exact"
        /\ LastResult.similarity_score = Score100
        /\ LastResult.matched_name = query
        /\ LastResult.document_number \in DocsOf(query)

\* an exact hit while find_candidates has another name to offer
C1_Witness ==
    /\ op = "fast_match_single" /\ query # <<>> /\ query \in RefNames
    /\ \E c \in CandidatesFor(query) : c[1] # query
    /\ LastResult.match_method = "Exact"

\* C2 as stated: with several rows of one clean name, the exact map holds
\* the doc number of the first such row in input order, and an exact match
\* on that name returns that first doc number.
C2_FirstOccurrenceWins ==
    /\ op # "init" =>
           \A n \in DOMAIN exact_match_index :
               exact_match_index[n] = FirstDocOf(n)
    /\ (op = "fast_match_single" /\ LastResult.match_method = "Exact") =>
           LastResult.document_number = FirstDocOf(query)

\* C2 as amended: the exact map holds the doc number of the last such row
\* in input order, and an exact match on that name returns that last doc
\* number.
C2_LastOccurrenceWins ==
    /\ op # "init" =>
           \A n \in DOMAIN exact_match_index :
               exact_match_index[n] = LastDocOf(n)
    /\ (op = "fast_match_single" /\ LastResult.match_method = "Exact") =>
           LastResult.document_number = LastDocOf(query)

\* an exact match on a name that two rows pair with different doc numbers
C2_Witness ==
    /\ op = "fast_match_single" /\ LastResult.match_method = "Exact"
    /\ Cardinality(DocsOf(query)) = 2
    /\ LastResult.document_number # FirstDocOf(query)

\* C3: two runs of fast_match_single over the same indexes, query and
\* threshold return identical records, for every iteration order of the
\* candidate set.
C3_Deterministic ==
    Len(results) = 2 => results[1] = results[2]

\* C4: a match accepted at the matcher's threshold is accepted at every lower
\* threshold, and an Exact result is the same record at every threshold.
LowerThresholds(t) == { t2 \in 0..(t - 1) : t2 % 5 = 0 }

C4_ThresholdMonotone ==
    (op = "fast_match_single" /\ Accepted(LastResult)) =>
        \A t2 \in LowerThresholds(match_threshold) :
        \A cands \in ListsOf(CandidatesFor(query)) :
            LET r2 == MatchSingle(exact_match_index,
                                  [original_name |-> LastResult.original_company,
                                   clean_name |-> query], cands, t2)
            IN  /\ Accepted(r2)
                /\ LastResult.match_method = "Exact" => r2 = LastResult

\* a fuzzy match accepted at the threshold with a score below 100
C4_Witness ==
    /\ op = "fast_match_single"
    /\ LastResult.match_method = "Fuzzy"
    /\ ~ScoreGE(LastResult.similarity_score, 90)
    /\ Cardinality(CandidatesFor(query)) >= 2

\* the reference entries of the highest similarity to a query
IsBest(e, q) ==
    \A e2 \in RefEntries : ~ScoreGT(Ratio(q, e2[1]), Ratio(q, e[1]))

FirstToken(s) == IF Split(s) = <<>> THEN <<>> ELSE Split(s)[1]

\* C5 as stated: the best reference entry is a candidate whenever it shares
\* name[:3] or the first token with the query, for names and tokens of
\* every length.
C5_CandidateCompleteness ==
    (op = "find_candidates" /\ query # <<>>) =>
        \A e \in RefEntries :
            (IsBest(e, query)
             /\ (Take(e[1], 3) = Take(query, 3)
                 \/ FirstToken(e[1]) = FirstToken(query)))
            => e \in Elems(candidates)

\* C5 as amended: the best reference entry is a candidate whenever both
\* names have at least 3 characters and the same first 3, or they have the
\* same first token and that token has at least 3 characters.
C5_CandidateCompletenessLong ==
    (op = "find_candidates" /\ query # <<>>) =>
        \A e \in RefEntries :
            (IsBest(e, query)
             /\ (\/ (Len(e[1]) >= 3 /\ Len(query) >= 3
                     /\ Take(e[1], 3) = Take(query, 3))
                 \/ (FirstToken(e[1]) = FirstToken(query)
                     /\ Len(FirstToken(query)) >= 3)))
            => e \in Elems(candidates)

\* the best entry shares the 3-character prefix, is not the query itself
\* and is returned next to another candidate
C5_Witness ==
    /\ op = "find_candidates" /\ Len(query) >= 3
    /\ \E e \in RefEntries :
        /\ IsBest(e, query) /\ e[1] # query
        /\ Take(e[1], 3) = Take(query, 3)
        /\ e \in Elems(candidates)
    /\ Len(candidates) >= 2

\* C6 as stated: with two distinct reference clean names, the candidate
\* list is never the whole reference set.
C6_NeverWholeSet ==
    (op = "find_candidates" /\ Cardinality(RefNames) >= 2) =>
        Elems(candidates) # RefEntries

\* C6 as amended: every candidate is a reference entry sharing its first two
\* characters or its first token with the query, so a reference entry that
\* shares neither is left out.
C6_CandidatesShareStart ==
    op = "find_candidates" =>
        /\ \A c \in Elems(candidates) :
            /\ c \in RefEntries
            /\ \/ Take(c[1], 2) = Take(query, 2)
               \/ FirstToken(c[1]) = FirstToken(query)
        /\ \A e \in RefEntries :
            (Take(e[1], 2) # Take(query, 2)
             /\ FirstToken(e[1]) # FirstToken(query))
            => e \notin Elems(candidates)

\* the fallback scan returns candidates and leaves an entry out
C6_Witness ==
    /\ op = "find_candidates"
    /\ candidates # <<>>
    /\ Len(query) >= 3 /\ Take(query, 3) \notin DOMAIN prefix_index
    /\ \E e \in RefEntries :
        Take(e[1], 2) # Take(query, 2) /\ e \notin Elems(candidates)

----------------------------------------------------------------------------
(* Properties of the normalizers *)

\* C7: FastDocumentMatcher.clean_company_name is idempotent: applied to its
\* own result it returns that result unchanged.
C7_FastCleanIdempotent ==
    (impl = "fast" /\ Len(cleaned) = 2) => cleaned[2] = cleaned[1]

\* a name the first call changed, with punctuation replaced and kept
C7_Witness ==
    /\ impl = "fast" /\ Len(cleaned) = 2
    /\ ~name.missing /\ cleaned[1] # name.text
    /\ \E i \in DOMAIN name.text : name.text[i] \in {",", "-"}
    /\ \E i \in DOMAIN cleaned[1] : cleaned[1][i] \in {".", "&"}

\* C8: the suffix-stripping normalizers (matching.clean_company_name and
\* EfficientCompanyMatcher.clean_company_name) are idempotent.
C8_SuffixStrippersIdempotent ==
    (impl \in {"matching", "efficient"} /\ Len(cleaned) = 2) =>
        cleaned[2] = cleaned[1]

\* C9: the four clean_company_name implementations return the same clean
\* name for every input name.
C9_SingleNormalization ==
    Len(cleaned) = 1 =>
        /\ cleaned[1] = FastClean(name)
        /\ cleaned[1] = QuickClean(name)
        /\ cleaned[1] = MatchingClean(name)
        /\ cleaned[1] = EfficientClean(name)

TestInc == <<"T","e","s","t",","," ","I","n","c",".">>

ABCompany == <<"A"," ","&"," ","B"," ","C","o","m","p","a","n","y">>

\* C10: FastDocumentMatcher.clean_company_name upper-cases, removes commas
\* and periods, keeps '&', leaves single spaces with none leading or
\* trailing, and returns the empty string for an empty or missing name;
\* 'Test, Inc.' gives 'TEST INC' and 'A & B Company' gives 'A & B COMPANY'.
C10_FastCleanContract ==
    (impl = "fast" /\ Len(cleaned) = 1) =>
        /\ cleaned[1] = Upper(cleaned[1])
        /\ \A i \in DOMAIN cleaned[1] : cleaned[1][i] \notin {",", "."}
        /\ cleaned[1] = Join(Split(cleaned[1]))
        /\ \A i \in DOMAIN cleaned[1] : cleaned[1][i] # "\t"
        /\ (\E i \in DOMAIN name.text : name.text[i] = "&") =>
               (\E i \in DOMAIN cleaned[1] : cleaned[1][i] = "&")
        /\ (name.missing \/ name.text = <<>>) => cleaned[1] = <<>>
        /\ name.text = TestInc => cleaned[1] = <<"T","E","S","T"," ","I","N","C">>
        /\ name.text = ABCompany =>
               cleaned[1] = <<"A"," ","&"," ","B"," ","C","O","M","P","A","N","Y">>

----------------------------------------------------------------------------
(* Properties of the matcher: classification, empty corpus, frame *)

\* a reference name and a query share name[:3], name[:5] or the first token
SharesStart(n, q) ==
    \/ Take(n, 3) = Take(q, 3)
    \/ Take(n, 5) = Take(q, 5)
    \/ FirstToken(n) = FirstToken(q)

\* C14 as stated: a query sharing no 3-character prefix, no 5-character
\* prefix and no first token with any reference entry is classified No Match
\* with match_method No Candidates.
C14_NoSharedStartNoCandidates ==
    (op = "fast_match_single"
     /\ \A e \in RefEntries : ~SharesStart(e[1], query)) =>
        /\ LastResult.match_quality = "No Match"
        /\ LastResult.match_method = "No Candidates"

\* C14 as amended: the same for a query with a non-empty clean name that,
\* when it has 3 or more characters, also shares its first two characters
\* with no reference name of 3 or more characters.
C14_NoSharedTwoCharsNoCandidates ==
    (op = "fast_match_single" /\ query # <<>>
     /\ \A e \in RefEntries :
            /\ ~SharesStart(e[1], query)
            /\ ~(Len(query) >= 3 /\ Len(e[1]) >= 3
                 /\ Take(e[1], 2) = Take(query, 2))) =>
        /\ LastResult.match_quality = "No Match"
        /\ LastResult.match_method = "No Candidates"
        /\ candidates = <<>>

\* a query of 3 characters against indexes that hold other prefixes
C14_Witness ==
    /\ op = "fast_match_single" /\ Len(query) >= 3
    /\ DOMAIN prefix_index # {}
    /\ \A e \in RefEntries :
            /\ ~SharesStart(e[1], query)
            /\ ~(Len(e[1]) >= 3 /\ Take(e[1], 2) = Take(query, 2))
    /\ LastResult.match_method = "No Candidates"

ExactPath == <<"Pending", "ExactMatched">>

ScoredPath == <<"Pending", "CandidatesFound", "Scored", "Classified">>

NoCandidatesPath == <<"Pending", "NoCandidates", "Classified">>

\* the transitions of the per-query state machine and their classification
FollowsStateMachine ==
    /\ path \in {ExactPath, ScoredPath, NoCandidatesPath}
    /\ LastResult.match_method
           \in {"Exact", "Fuzzy", "No Candidates", "Below Threshold"}
    /\ path = ExactPath =>
           (LastResult.match_method = "Exact" /\ candidates = <<>>)
    /\ path = NoCandidatesPath =>
           (LastResult.match_method = "No Candidates"
            /\ LastResult.match_quality = "No Match")
    /\ path = ScoredPath =>
           /\ candidates # <<>>
           /\ LastResult.match_method \in {"Fuzzy", "Below Threshold"}
           /\ LastResult.match_method = "Below Threshold" =>
                  LastResult.match_quality = "No Match"

\* C16 as stated: every call of fast_match_single, also for an empty clean
\* name, follows Pending -> ExactMatched, Pending -> CandidatesFound ->
\* Scored -> Classified or Pending -> NoCandidates -> Classified, with a
\* match_method among Exact, Fuzzy, No Candidates, Below Threshold, and no
\* candidate is generated after an exact hit.
C16_QueryStateMachine ==
    op = "fast_match_single" => FollowsStateMachine

\* C16 as amended: the same for every query with a non-empty clean name; a
\* query with an empty clean name is classified No Match with match_method
\* None at once, with no lookup.
C16_QueryStateMachineNonEmpty ==
    op = "fast_match_single" =>
        /\ query # <<>> => FollowsStateMachine
        /\ query = <<>> =>
               /\ path = <<"Pending", "Classified">>
               /\ LastResult.match_method = "None"
               /\ LastResult.match_quality = "No Match"
               /\ candidates = <<>>

\* an exact hit on a name for which find_candidates has candidates
C16_Witness ==
    /\ op = "fast_match_single" /\ path = ExactPath
    /\ CandidatesFor(query) # {}

\* C19: an empty reference set (no rows, or rows with empty clean names
\* only) is a fatal error at build time, so no query is matched against
\* empty indexes.
C19_EmptyReferenceFatal ==
    op \in {"find_candidates", "fast_match_single"} => RefEntries # {}

\* the indexes a fresh matcher builds from the reference rows
FreshIndexes ==
    IndexRows([exact |-> EmptyDict, prefix |-> EmptyDict, token |-> EmptyDict],
              refs)

\* the records fast_match_single can return for q when run alone on fresh
\* indexes
AloneResults(q, original) ==
    { MatchSingle(FreshIndexes.exact,
                  [original_name |-> original, clean_name |-> q],
                  cands, match_threshold) :
        cands \in ListsOf(CandidateSet(FreshIndexes.prefix,
                                       FreshIndexes.token, q)) }

\* C20: once build_indexes has returned, find_candidates and
\* fast_match_single leave the three indexes unchanged, and each query gets
\* a result it gets when run alone on freshly built indexes.
C20_IndexesReadOnly ==
    /\ op \in {"find_candidates", "fast_match_single"} =>
           /\ exact_match_index = FreshIndexes.exact
           /\ prefix_index = FreshIndexes.prefix
           /\ token_index = FreshIndexes.token
    /\ op = "fast_match_single" =>
           LastResult \in AloneResults(query, LastResult.original_company)

\* a second query that takes the fallback scan for a prefix not indexed
C20_Witness ==
    /\ op = "fast_match_single" /\ Len(results) = 2
    /\ Len(query) >= 3 /\ Take(query, 3) \notin DOMAIN prefix_index
    /\ candidates # <<>>

----------------------------------------------------------------------------
(* Properties of the matcher on the reference table of the tests *)

Accepting == {"Exact", "Excellent", "Very Good", "Good"}

\* C13: with the reference clean name 'ACME CORP' indexed and threshold 80,
\* fast_match_single on the clean name 'ACME CORPORATION' returns match_method
\* Fuzzy, a similarity_score of at least 80 and a tier Good or better.
C13_AcmeCorporationAccepted ==
    (op = "fast_match_single" /\ query = ACME_CORPORATION
     /\ ACME_CORP \in DOMAIN exact_match_index /\ match_threshold = 80) =>
        /\ LastResult.match_method = "Fuzzy"
        /\ ScoreGE(LastResult.similarity_score, Frac(80, 1))
        /\ LastResult.match_quality \in Accepting

\* C15: in match_batch and match_companies_parallel a query whose processing
\* raises gives a No Match result and every other query of the batch is
\* still processed: the call returns one result per query.
C15_FailureIsolated ==
    op \in {"match_batch", "match_companies_parallel"} =>
        /\ ~outcome.raised
        /\ Len(outcome.results) = Len(batch)
        /\ \A i \in DOMAIN batch :
               /\ outcome.results[i].original_company = batch[i].original_name
               /\ Raises(batch[i]) =>
                      outcome.results[i].match_quality = "No Match"

----------------------------------------------------------------------------
(* Properties of the quality tiers *)

\* the tier C17 states for a score
StatedTier(s) ==
    IF s = Score100 THEN "Exact"
    ELSE IF ScoreGE(s, 95) THEN "Excellent"
    ELSE IF ScoreGE(s, 85) THEN "Very Good"
    ELSE IF ScoreGE(s, 75) THEN "Good"
    ELSE "Fair"

\* C17: get_match_quality of FastDocumentMatcher and of QuickDocumentMatcher
\* both map 100 to Exact, a score of at least 95 to Excellent, at least 85
\* to Very Good, at least 75 to Good and a score below 75 to Fair.
C17_SameTiers ==
    quality.of \in {"fast", "quick"} => quality.tier = StatedTier(given_score)

----------------------------------------------------------------------------
(* Properties of the loader *)

\* both columns are recognised by the detection loop
Recognised(cols) ==
    (\E i \in DOMAIN cols : IsDocCol(cols[i]))
        /\ (\E i \in DOMAIN cols : IsCompanyCol(cols[i]))

\* C18: load_data_efficiently fails with a fatal error whenever the CSV has
\* no column recognised as the doc-number column or none recognised as the
\* company-name column; it never loads with default or guessed columns.
C18_FatalOnUnrecognisedColumns ==
    (loaded.state # "none" /\ ~Recognised(columns)) =>
        /\ loaded.state = "raised"
        /\ ~loaded.defaults
        /\ ~loaded.all_columns

\* the column of the file whose values the table's column called col holds
DataOf(table, col) ==
    LET i == CHOOSE k \in DOMAIN table : table[k].name = col
    IN  table[i].data

\* C29: after load_data_efficiently detects the doc-number column and the
\* company-name column, the returned table's 'doc_number' column holds the
\* values of the detected doc-number column and its 'company_name' column
\* those of the detected company-name column, in every order of the two
\* columns in the file.
C29_DetectedColumnsKeepTheirValues ==
    (/\ loaded.state = "returned"
     /\ Recognised(columns)
     /\ ~loaded.all_columns) =>
        /\ DataOf(loaded.officers_df, DocNumberColumn) =
               LastColumn(columns, { i \in DOMAIN columns : IsDocCol(columns[i]) })
        /\ DataOf(loaded.officers_df, CompanyNameColumn) =
               LastColumn(columns,
                          { i \in DOMAIN columns : IsCompanyCol(columns[i]) })

----------------------------------------------------------------------------
(* Properties of extract_officer_from_line *)

JohnDoe == <<"J","O","H","N"," ","D","O","E">>

\* the record holds the placed values
ExtractsBack(doc, company, street, city, state, zip, role, full_name) ==
    /\ officer.kind = "record"
    /\ officer.doc_number = doc
    /\ officer.company_name = company
    /\ officer.city = city
    /\ officer.state = state
    /\ officer.zip_code = zip
    /\ officer.officer_role = role
    /\ Contains(street, officer.address)
    /\ Contains(full_name, officer.officer_full_name)

\* the placed lines that carry all the values: long enough, with city,
\* state and zip, and with an officer
CarriesAll(pl) ==
    pl.len >= MinLineLength /\ pl.form.zip /\ pl.who.last # <<>>

\* C11: extract_officer_from_line on a line that carries a doc number, a
\* company name, a street, city, state, zip, a role and first and last name
\* returns a record with exactly those values, officer_full_name holding
\* first and last name separated by a single space; so it does for the line
\* of the tests of the repository.
C11_ExtractionRoundTrip ==
    officer.kind # "none" =>
        /\ raw_line = test_line =>
               ExtractsBack(DocL24000326550, WOYUNTANG_LLC, MainStreet,
                            Wilmington, Delaware, Zip19801, <<"C","E","O">>, JohnDoe)
        /\ \A pl \in Placements :
               (CarriesAll(pl) /\ raw_line = LineOf(pl)) =>
                   ExtractsBack(pl.doc, pl.company, pl.street, Wilmington,
                                Delaware, Zip19801, pl.who.role,
                                pl.who.first \o <<" ">> \o pl.who.last)

\* the window [600, 900) of the line holds an officer signature
HasSignature(ln) ==
    LET search_section == Slice(ln, SearchStart, MinLineLength)
    IN  \E p \in 0..Len(search_section) :
            CanMatch(officer_pattern, search_section, 1, p)

----------------------------------------------------------------------------
(* Properties of a second build_indexes call *)

\* the indexes a fresh matcher builds from the rows alone
IndexesOf(rows) ==
    IndexRows([exact |-> EmptyDict, prefix |-> EmptyDict,
               token |-> EmptyDict], rows)

\* C21: after build_indexes on reference set A and then on reference set B
\* the three indexes equal those a fresh matcher builds from B alone: no
\* entry of A remains and no entry of B is duplicated
C21_RebuiltWholesale ==
    op = "rebuild" =>
        [exact |-> exact_match_index, prefix |-> prefix_index,
         token |-> token_index] = IndexesOf(last_built)

----------------------------------------------------------------------------
(* Properties of the indexes build_indexes leaves *)

\* the entries of the reference rows at the positions in keep, in input order
EntriesAt(keep) ==
    LET rows == SelectRows(refs, keep, 1)
    IN  [i \in DOMAIN rows |-> <<rows[i].clean_name, rows[i].doc_number>>]

\* the rows with a non-empty clean name that starts with the key k
RowsStarting(k) ==
    { i \in DOMAIN refs :
        /\ refs[i].clean_name # <<>>
        /\ Len(refs[i].clean_name) >= Len(k)
        /\ Take(refs[i].clean_name, Len(k)) = k }

\* the rows with a non-empty clean name whose first token is k
RowsWithToken(k) ==
    { i \in DOMAIN refs :
        refs[i].clean_name # <<>> /\ FirstToken(refs[i].clean_name) = k }

\* is the entry e in the list the index d keeps under the key k
Listed(d, k, e) == k \in DOMAIN d /\ e \in Elems(d[k])

\* what C22 says of the rows and of the lists, the list of n[:5] holding
\* the entry of a row exactly when len(n) >= 5 or, with three_too, when
\* len(n) = 3
IndexContents(three_too) ==
    /\ DOMAIN exact_match_index = RefNames
    /\ \A i \in DOMAIN refs :
           LET n == refs[i].clean_name
               e == <<n, refs[i].doc_number>>
           IN  IF n = <<>>
               THEN /\ n \notin DOMAIN exact_match_index
                    /\ \A k \in DOMAIN prefix_index :
                           e \notin Elems(prefix_index[k])
                    /\ \A k \in DOMAIN token_index :
                           e \notin Elems(token_index[k])
               ELSE /\ Listed(prefix_index, Take(n, 3), e) <=> Len(n) >= 3
                    /\ Listed(prefix_index, Take(n, 5), e)
                           <=> (Len(n) >= 5 \/ (three_too /\ Len(n) = 3))
                    /\ Listed(token_index, FirstToken(n), e)
                           <=> Len(FirstToken(n)) >= 3
    /\ \A k \in DOMAIN prefix_index :
           /\ Len(k) \in {3, 5}
           /\ prefix_index[k] # <<>>
           /\ prefix_index[k] = EntriesAt(RowsStarting(k))
    /\ \A k \in DOMAIN token_index :
           /\ token_index[k] # <<>>
           /\ token_index[k] = EntriesAt(RowsWithToken(k))

\* C22 as stated: after build_indexes on a fresh matcher every row with a
\* non-empty clean name n and doc number d has n as a key of the exact map,
\* (n, d) in the prefix list of n[:3] exactly when len(n) >= 3 and of n[:5]
\* exactly when len(n) >= 5, and in the token list of its first token
\* exactly when that token has length >= 3; each list holds its entries in
\* input order; rows with an empty clean name are in no index; every key
\* and entry comes from a reference row.
C22_IndexContents ==
    op = "build_indexes" => IndexContents(FALSE)

\* C22 as amended: the same, with (n, d) in the list of n[:5] exactly when
\* len(n) >= 5 or len(n) = 3, n[:5] being n[:3] for a name of three
\* characters.
C22_IndexContentsThreeChars ==
    op = "build_indexes" => IndexContents(TRUE)

\* two rows of one three-character name and two doc numbers, listed in
\* input order under the name's prefix and under its first token
C22_Witness ==
    /\ op = "build_indexes"
    /\ Len(refs) = 2
    /\ refs[1].doc_number # refs[2].doc_number
    /\ refs[1].clean_name = refs[2].clean_name
    /\ Len(refs[1].clean_name) = 3
    /\ Len(prefix_index[refs[1].clean_name]) = 2
    /\ Len(token_index[refs[1].clean_name]) = 2

----------------------------------------------------------------------------
(* Properties of find_candidates *)

\* the list an index keeps under a key, empty for a key it does not have
ListAt(d, k) == IF k \in DOMAIN d THEN d[k] ELSE <<>>

\* the union U of C23 for the query q
DirectHits(q) ==
    Elems(ListAt(prefix_index, Take(q, 3)))
        \cup Elems(ListAt(prefix_index, Take(q, 5)))
        \cup Elems(ListAt(token_index, FirstToken(q)))

\* the union, over the prefix keys with q's first two characters, of the
\* first 50 entries of each list
WidenedHits(q) ==
    UNION { Elems(Take(prefix_index[k], 50)) :
            k \in { x \in DOMAIN prefix_index : Take(x, 2) = Take(q, 2) } }

NoDuplicates(list) ==
    \A i, j \in DOMAIN list : i # j => list[i] # list[j]

\* C23: find_candidates(q) returns, without duplicates, the union U of the
\* prefix lists of q[:3] and q[:5] and of the token list of q's first
\* token; only when U is empty and len(q) >= 3 it returns the union, over
\* the prefix keys with q's first two characters, of at most the first 50
\* entries of each list; in every other case with U empty it returns no
\* candidate.
C23_CandidatesUnionOrFallback ==
    op = "find_candidates" =>
        /\ NoDuplicates(candidates)
        /\ Elems(candidates) =
               IF DirectHits(query) # {} THEN DirectHits(query)
               ELSE IF Len(query) >= 3 THEN WidenedHits(query)
               ELSE {}

\* the fallback on a key whose list is longer than 50 entries, and another
\* key
C23_Witness ==
    /\ op = "find_candidates"
    /\ DirectHits(query) = {}
    /\ Len(query) >= 3
    /\ \E k \in DOMAIN prefix_index :
           Take(k, 2) = Take(query, 2) /\ Len(prefix_index[k]) > 50
    /\ Cardinality(Elems(candidates)) > 50

----------------------------------------------------------------------------
(* Properties of the address parsing of extract_officer_from_line *)

\* the whitespace-collapsed second address range of a line
Address2Clean(ln) ==
    Strip(CollapseSpaces(Strip(Slice(ln, Address2Start, Address2End))))

\* the first of the four patterns, in the order of C24, that matches text;
\* 0 when none does
FirstMatching(text) ==
    LET hits == { i \in DOMAIN AddressPatterns :
                    Search(AddressPatterns[i].pat, text) # <<>> }
    IN  IF hits = {} THEN 0 ELSE CHOOSE i \in hits : \A j \in hits : i <= j

\* C24: address parsing tries (1) city, state directly followed by a zip,
\* (2) city, comma, state+zip, (3) city, state, zip separated by spaces,
\* (4) city and state without zip, in this order on the collapsed second
\* address range, and takes city, state and zip from the first pattern that
\* matches; when none matches the three are empty and the collapsed text is
\* kept in the address.
C24_FirstAddressPatternWins ==
    officer.kind = "record" =>
        LET text == Address2Clean(raw_line)
            i == FirstMatching(text)
        IN  IF i = 0
            THEN /\ officer.city = <<>>
                 /\ officer.state = <<>>
                 /\ officer.zip_code = <<>>
                 /\ Contains(text, officer.address)
            ELSE LET p == AddressPatterns[i]
                     match == Search(p.pat, text)
                 IN  /\ officer.city = Strip(Group(text, match, 1, 1))
                     /\ officer.state =
                            Strip(Group(text, match, p.state, p.state))
                     /\ officer.zip_code =
                            IF i = 4 THEN <<>>
                            ELSE Strip(Group(text, match, p.zip, p.zip))

\* a range the third pattern matches at its start and the first pattern
\* further on: the city is the one of the first pattern
C24_Witness ==
    /\ officer.kind = "record"
    /\ Address2Clean(raw_line) # <<>>
    /\ FirstMatching(Address2Clean(raw_line)) = 1
    /\ Search(csz_pattern_space, Address2Clean(raw_line)) # <<>>
    /\ officer.city = <<"T","A","M","P","A">>
    /\ officer.zip_code = <<"3","3","6","0","2">>

----------------------------------------------------------------------------
(* Properties of the fuzzy step *)

\* the score of the i-th candidate, in the order the candidates are scored
ScoreOf(i) == Ratio(query, candidates[i][1])

\* C26: the entry the fuzzy step returns has the highest score among the
\* scored candidates and is accepted only if that score is at least the
\* threshold; of several candidates with the highest score the first in
\* the order they are scored is returned.
C26_BestScoreFirstTie ==
    op = "fast_match_single" =>
        /\ LastResult.match_method = "Fuzzy" =>
               \E i \in DOMAIN candidates :
                   /\ <<LastResult.matched_name,
                        LastResult.document_number>> = candidates[i]
                   /\ LastResult.similarity_score = ScoreOf(i)
                   /\ ScoreGE(ScoreOf(i), match_threshold)
                   /\ \A j \in DOMAIN candidates :
                          ~ScoreGT(ScoreOf(j), ScoreOf(i))
                   /\ \A j \in 1..(i - 1) : ScoreGT(ScoreOf(i), ScoreOf(j))
        /\ LastResult.match_method = "Below Threshold" =>
               \A j \in DOMAIN candidates :
                   ~ScoreGE(ScoreOf(j), match_threshold)

----------------------------------------------------------------------------
(* Properties of fast_similarity *)

\* the strs clean_company_name can return: upper case, stripped, words
\* separated by one space
IsCleanName(s) == Join(Split(s)) = s

\* the percentage of the words two strs share among the words of both
JaccardPercent(a, b) ==
    Frac(100 * Cardinality(TokenSet(a) \cap TokenSet(b)),
         Cardinality(TokenSet(a) \cup TokenSet(b)))

\* the percentage of the shorter length over the longer
LengthPercent(a, b) ==
    Frac(100 * Min(Len(a), Len(b)), Max(Len(a), Len(b)))

\* 10 times the score equals 7 times the Jaccard percentage plus 3 times
\* the length percentage
IsWeightedSum(score, a, b) ==
    LET j == JaccardPercent(a, b)
        l == LengthPercent(a, b)
    IN  score.n * 10 * j.d * l.d = (7 * j.n * l.d + 3 * l.n * j.d) * score.d

\* what C25 says of the result for the clean names a and b, equal names
\* scoring 100 when they are among the names in hundred
SimilarityContract(hundred) ==
    LET a == sim_args.str1
        b == sim_args.str2
        score == sim_score[1]
    IN  (sim_score # <<>> /\ IsCleanName(a) /\ IsCleanName(b)) =>
            /\ (a = b /\ a \in hundred) => score = Score100
            /\ a # b => IsWeightedSum(score, a, b)
            /\ ScoreGE(score, 0) /\ ~ScoreGT(score, Score100)
            /\ score = FastSimilarity(b, a)

\* C25 as stated: fast_similarity(a, b) is 100 for every pair of equal
\* clean names, and for a # b it is 0.7 times the token-set Jaccard
\* percentage plus 0.3 times the percentage of the shorter length over the
\* longer; it is within [0, 100] and the same for (a, b) and (b, a).
C25_SimilarityContract == SimilarityContract(SimilarityNames)

\* C25 as amended: the same, with 100 for every pair of equal non-empty
\* clean names and 0 for two empty names.
C25_SimilarityContractNonEmpty ==
    /\ SimilarityContract(SimilarityNames \ {<<>>})
    /\ (sim_score # <<>> /\ sim_args.str1 = <<>> /\ sim_args.str2 = <<>>) =>
           sim_score[1] = Score0

\* two names that share one word of two and differ in length
C25_Witness ==
    /\ sim_score # <<>>
    /\ sim_args.str1 = <<"A"," ","B">>
    /\ sim_args.str2 = <<"A">>
    /\ sim_score[1] = Frac(45, 1)

\* C30: fast_similarity returns 100 only when the two clean names are the
\* same str: two different non-empty names, names of the same words in
\* another order among them, score strictly below 100.
C30_HundredOnlyForSameName ==
    (sim_score # <<>>
     /\ IsCleanName(sim_args.str1) /\ IsCleanName(sim_args.str2)
     /\ sim_args.str1 # <<>> /\ sim_args.str2 # <<>>
     /\ sim_args.str1 # sim_args.str2) =>
        ScoreGT(Score100, sim_score[1])

----------------------------------------------------------------------------
(* Properties of process_file_in_chunks *)

\* the numbers of the lines on which extraction succeeds
ExtractedLines ==
    { i \in DOMAIN file_lines :
        ExtractOfficer(file_lines[i], "").kind = "record" }

\* the k-th smallest number of a set of numbers
Kth(S, k) == CHOOSE x \in S : Cardinality({ y \in S : y <= x }) = k

\* r is the record of line i but for the time of its extraction
IsRecordOf(r, i) ==
    LET e == ExtractOfficer(file_lines[i], r.extraction_timestamp)
    IN  /\ r.line_number = i
        /\ \A f \in DOMAIN e : r[f] = e[f]

\* C27: process_file_in_chunks returns, for every chunk_size >= 1, one
\* record for each line on which extraction succeeds, in line order and
\* with the line's 1-based line_number; the other lines are skipped
\* without stopping the run, and lines read = records returned + lines
\* skipped.
C27_OneRecordPerExtractedLine ==
    chunk_out.state # "none" =>
        /\ chunk_out.state = "returned"
        /\ Len(chunk_out.all_officers) = Cardinality(ExtractedLines)
        /\ \A k \in DOMAIN chunk_out.all_officers :
               IsRecordOf(chunk_out.all_officers[k], Kth(ExtractedLines, k))
        /\ chunk_out.total_lines =
               Len(chunk_out.all_officers)
                   + Cardinality(DOMAIN file_lines \ ExtractedLines)

\* C27 for the files that have a line
C27_NonEmptyFiles == file_lines # <<>> => C27_OneRecordPerExtractedLine

----------------------------------------------------------------------------
(* Properties of the records of fast_match_single *)

\* what C28 says of one record
Consistent(r) ==
    /\ r.match_method = "Exact" <=> r.match_quality = "Exact"
    /\ r.match_quality = "Exact" <=> r.similarity_score = Score100
    /\ r.match_method = "Fuzzy" =>
           /\ ScoreGE(r.similarity_score, match_threshold)
           /\ ScoreGT(Score100, r.similarity_score)
           /\ r.match_quality = get_match_quality(r.similarity_score)
           /\ r.match_quality # "Exact"
           /\ <<r.matched_name, r.document_number>> \in RefEntries
    /\ r.match_quality = "No Match" <=> r.similarity_score = Score0
    /\ r.match_quality = "No Match" =>
           r.matched_name = <<>> /\ r.document_number = ""

\* C28: in every record of fast_match_single match_method Exact, match_quality
\* Exact and score 100 go together; Fuzzy implies threshold <= score < 100,
\* the quality tier of the score, never Exact, and a doc number the
\* reference set pairs with matched_name; match_quality No Match goes with
\* score 0, and then matched_name and document_number are empty.
C28_RecordConsistent ==
    op = "fast_match_single" => \A i \in DOMAIN results : Consistent(results[i])

\* a fuzzy match on a name the reference set holds with two doc numbers
C28_Witness ==
    /\ op = "fast_match_single"
    /\ LastResult.match_method = "Fuzzy"
    /\ LastResult.match_quality = "Very Good"
    /\ Cardinality(DocsOf(LastResult.matched_name)) = 2

====
